---- MODULE Spec2Model ----
(***************************************************************************)
(* In-memory service backends of moto: the CodePipeline backend            *)
(* (moto/codepipeline/models.py), the SES backend (moto/ses/models.py),    *)
(* the paginated listing of SES configuration sets and the EC2 network ACL *)
(* backend (moto/ec2/_models/network_acls.py); the Resource Groups Tagging *)
(* API and the S3 bucket lifecycle configuration as their tests use them.  *)
(*                                                                         *)
(* Every backend method runs to completion, so each method is one action.  *)
(* Each group of methods has its own specification: SpecCP (pipelines),    *)
(* SpecSES (sending), SpecFeedback (feedback notifications), SpecIdentity  *)
(* (verified identities), SpecPage (configuration sets and their listing), *)
(* SpecReputation (reputation options), SpecEvents (event destinations),   *)
(* SpecRR (receipt rules), SpecACL (network ACLs), SpecDescribe            *)
(* (describe_network_acls), SpecTag (tagging API), SpecS3 (lifecycle).     *)
(* The variables of the other backends stay at their initial values.  The  *)
(* variable <backend>_last records the last call: the method, the resource *)
(* it named and the exception it raised (NoError if none).                 *)
(***************************************************************************)
EXTENDS Integers, Sequences, FiniteSets, TLC

VARIABLES
    pipelines,   \* CodePipelineBackend.pipelines: name -> CodePipeline
    clock,       \* the value datetime.utcnow() returns next
    cp_last,     \* the last CodePipelineBackend call and its outcome
    addresses,                \* SESBackend.addresses
    email_addresses,          \* SESBackend.email_addresses
    domains,                  \* SESBackend.domains
    templates,                \* SESBackend.templates: name -> template info
    sns_topics,               \* SESBackend.sns_topics: identity -> settings
    sent_messages,            \* SESBackend.sent_messages
    sent_message_count,       \* SESBackend.sent_message_count
    rejected_messages_count,  \* SESBackend.rejected_messages_count
    sns_published,            \* what the sends published through the SNS backend
    ses_last,                 \* the last SESBackend call and its outcome
    config_sets,   \* SESBackend.config_sets, in insertion order
    cs_last,       \* the last configuration set call of SESBackend and its outcome
    pg_phase,      \* the listing client: "idle", "paging" or "done"
    pg_params,     \* the listing client: the parameters of its first call
    pg_token,      \* the listing client: the NextToken of the last response
    pg_items,      \* the listing client: the items of the pages so far
    pg_calls,      \* the listing client: the list calls so far
    network_acls,  \* NetworkAclBackend.network_acls: id -> NetworkAcl
    acl_order,     \* the ids of network_acls in the order the dict holds them
    acl_last,      \* the last NetworkAclBackend call and its outcome
    tagged,        \* the resources the tagging API sees: id -> service, type, tags
    rg_last,       \* the last call of the tagging scenario and what it returned
    default_reputation_options,   \* the dict that is the default of the parameter
                                  \* reputation_options of ConfigurationSet.__init__
    default_sharers,              \* the names of the sets of config_sets whose
                                  \* reputation_options is that dict
    other_config_sets,            \* config_sets of the SESBackend of another region
    config_set_event_destination, \* SESBackend.config_set_event_destination
    event_destinations,           \* SESBackend.event_destinations
    receipt_rule_set,  \* SESBackend.receipt_rule_set: name -> list of rules
    rr_last,           \* the last receipt rule call of SESBackend and its outcome
    buckets,       \* the S3 buckets: name -> the lifecycle rules of the bucket
    s3_last        \* the last S3 call and its outcome

cpVars == <<pipelines, clock, cp_last>>

sesVars == <<addresses, email_addresses, domains, templates, sns_topics, sent_messages,
             sent_message_count, rejected_messages_count, sns_published, ses_last>>

pageVars == <<config_sets, cs_last, pg_phase, pg_params, pg_token, pg_items, pg_calls>>

aclVars == <<network_acls, acl_order, acl_last>>

tagVars == <<tagged, rg_last>>

s3Vars == <<buckets, s3_last>>

repVars == <<default_reputation_options, default_sharers, other_config_sets>>

evVars == <<config_set_event_destination, event_destinations>>

rrVars == <<receipt_rule_set, rr_last>>

vars == <<cpVars, sesVars, pageVars, aclVars, tagVars, s3Vars, repVars, evVars, rrVars>>

\* what the operations of one backend leave alone
notCP == <<sesVars, pageVars, aclVars, tagVars, s3Vars, repVars, evVars, rrVars>>
notSES == <<cpVars, pageVars, aclVars, tagVars, s3Vars, repVars, evVars, rrVars>>
notPage == <<cpVars, sesVars, aclVars, tagVars, s3Vars, rrVars>>
notACL == <<cpVars, sesVars, pageVars, tagVars, s3Vars, repVars, evVars, rrVars>>
notTag == <<cpVars, sesVars, pageVars, aclVars, s3Vars, repVars, evVars, rrVars>>
notRR == <<cpVars, sesVars, pageVars, aclVars, tagVars, s3Vars, repVars, evVars>>
notS3 == <<cpVars, sesVars, pageVars, aclVars, tagVars, repVars, evVars, rrVars>>

----------------------------------------------------------------------------
(* Generic helpers for Python dicts and lists.                             *)

\* d[k] = v on a dict
SetItem(d, k, v) == [x \in (DOMAIN d) \cup {k} |-> IF x = k THEN v ELSE d[x]]

\* d.pop(k, None) on a dict
PopItem(d, k) == [x \in (DOMAIN d) \ {k} |-> d[x]]

EmptyDict == <<>>

NoError == [exc |-> "none", msg |-> ""]

Raised(exc, msg) == [exc |-> exc, msg |-> msg]

----------------------------------------------------------------------------
(* CodePipeline: bounds and inputs.                                        *)

\* the model stops the clock here: at most MaxClock create/update calls construct or refresh an entity
MaxClock == 3

\* ceiling of validate_tags
TagLimit == 50

Names == {"p1", "p2"}

REGION == "us-east-1"
ACCOUNT_ID == "123456789012"

\* the IAM backend the pipeline backend consults: role arn -> Service principal
\* of Statement[0] of the role's assume-role policy document
iam_roles ==
    [r \in {"role/trusted", "role/untrusted"} |->
        IF r = "role/trusted" THEN <<"codepipeline.amazonaws.com">>
                              ELSE <<"ec2.amazonaws.com">>]

\* an action declaration that leaves out every optional field
BareAction == [name |-> "Source"]

\* an action declaration that supplies every optional field
FullAction ==
    [name |-> "Build", runOrder |-> 2, configuration |-> [ProjectName |-> "x"],
     outputArtifacts |-> <<"out">>, inputArtifacts |-> <<"in">>]

\* an action declaration that supplies two of the optional fields
PartialAction == [name |-> "Deploy", runOrder |-> 3, inputArtifacts |-> <<"out">>]

StageOf(n, acts) == [name |-> n, actions |-> acts]

\* stage lists with no, one, two and three stages
NoStages    == <<>>
OneStage    == <<StageOf("S1", <<BareAction>>)>>
TwoStages   == <<StageOf("S1", <<BareAction>>), StageOf("S2", <<FullAction>>)>>
ThreeStages == <<StageOf("S1", <<FullAction, BareAction>>), StageOf("S2", <<PartialAction>>),
                 StageOf("S3", <<>>)>>

\* the payloads of create_pipeline and update_pipeline that name n.  For p1:
\* two valid ones (one carries a version of its own) and payloads that break
\* one or two of the structural rules; for p2, the second pipeline of the
\* store: one valid and one invalid payload
PayloadsOf(n) ==
    IF n = "p1"
    THEN { [name |-> n, roleArn |-> "role/trusted", stages |-> TwoStages],
           [name |-> n, roleArn |-> "role/trusted", stages |-> ThreeStages, version |-> 7],
           [name |-> n, roleArn |-> "role/trusted", stages |-> OneStage],
           [name |-> n, roleArn |-> "role/untrusted", stages |-> TwoStages, version |-> 7],
           [name |-> n, roleArn |-> "role/missing", stages |-> NoStages] }
    ELSE { [name |-> n, roleArn |-> "role/trusted", stages |-> TwoStages, version |-> 7],
           [name |-> n, roleArn |-> "role/untrusted", stages |-> OneStage] }

Payloads == UNION { PayloadsOf(n) : n \in Names }

\* tag keys: the text prefix + str(id); system keys carry the prefix "aws:"
UserKey(i) == [prefix |-> "", id |-> i]
SystemKey(i) == [prefix |-> "aws:", id |-> i]

\* key.startswith("aws:")
StartsWithAws(key) == key.prefix = "aws:"

Tag(k, v) == [key |-> k, value |-> v]

\* the tags user keys lo..hi, all with value v
Batch(lo, hi, v) == [i \in 1..(hi - lo + 1) |-> Tag(UserKey(lo + i - 1), v)]

\* the tag lists of a call: none, 49 tags, one tag, one key twice (with two
\* values), 51 tags, a system key after a user key
TagLists ==
    { <<>>,
      Batch(1, 49, "a"),
      Batch(50, 50, "a"),
      <<Tag(UserKey(51), "a"), Tag(UserKey(51), "b")>>,
      Batch(1, 51, "a"),
      <<Tag(UserKey(50), "a"), Tag(SystemKey(1), "a")>> }

\* the tag lists of the calls that name n: all of them for p1, three for p2
TagListsOf(n) ==
    IF n = "p1" THEN TagLists
    ELSE { <<>>, Batch(50, 50, "a"), <<Tag(UserKey(50), "a"), Tag(SystemKey(1), "a")>> }

\* the key lists of an untag call; key 52 is never set
TagKeyLists == { <<UserKey(52), UserKey(50)>> }

\* "arn:aws:codepipeline:{region}:{account}:{name}", split on ":"
ArnOf(name) == <<"arn", "aws", "codepipeline", REGION, ACCOUNT_ID, name>>

\* arn.split(":")[-1]
NameOfArn(arn) == arn[Len(arn)]

----------------------------------------------------------------------------
(* CodePipeline entity.                                                    *)

\* as FillAction, with 0 as the default of runOrder
FillActionRunOrderZero(action) ==
    LET a1 == IF "runOrder" \in DOMAIN action THEN action
              ELSE SetItem(action, "runOrder", 0)
        a2 == IF "configuration" \in DOMAIN a1 THEN a1
              ELSE SetItem(a1, "configuration", EmptyDict)
        a3 == IF "outputArtifacts" \in DOMAIN a2 THEN a2
              ELSE SetItem(a2, "outputArtifacts", <<>>)
        a4 == IF "inputArtifacts" \in DOMAIN a3 THEN a3
              ELSE SetItem(a3, "inputArtifacts", <<>>)
    IN  a4

\* the four defaults of one action declaration
FillAction(action) ==
    LET a1 == IF "runOrder" \in DOMAIN action THEN action
              ELSE SetItem(action, "runOrder", 1)
        a2 == IF "configuration" \in DOMAIN a1 THEN a1
              ELSE SetItem(a1, "configuration", EmptyDict)
        a3 == IF "outputArtifacts" \in DOMAIN a2 THEN a2
              ELSE SetItem(a2, "outputArtifacts", <<>>)
        a4 == IF "inputArtifacts" \in DOMAIN a3 THEN a3
              ELSE SetItem(a3, "inputArtifacts", <<>>)
    IN  a4

add_default_values(pipeline) ==
    LET FillStage(stage) ==
            [stage EXCEPT !.actions = [j \in DOMAIN stage.actions |->
                                          FillAction(stage.actions[j])]]
    IN  [pipeline EXCEPT !.stages = [i \in DOMAIN pipeline.stages |->
                                        FillStage(pipeline.stages[i])]]

\* CodePipeline.__init__: version 1, defaults filled, no tags, both timestamps now
NewCodePipeline(pipeline, now) ==
    [pipeline |-> add_default_values(SetItem(pipeline, "version", 1)),
     tags     |-> EmptyDict,
     arn      |-> ArnOf(pipeline.name),
     created  |-> now,
     updated  |-> now]

\* a slip of validate_tags: the tags already on the entity are not counted
validate_tags_new_only(entity, tags) ==
    IF \E i \in DOMAIN tags : StartsWithAws(tags[i].key)
    THEN Raised("InvalidTagsException", "Not allowed to modify system tags")
    ELSE IF Len(tags) > TagLimit
         THEN Raised("TooManyTagsException", "Tag limit exceeded")
         ELSE NoError

\* a slip of validate_tags: the ceiling is checked before the system keys
validate_tags_count_first(entity, tags) ==
    IF Cardinality(DOMAIN entity.tags) + Len(tags) > TagLimit
    THEN Raised("TooManyTagsException", "Tag limit exceeded")
    ELSE IF \E i \in DOMAIN tags : StartsWithAws(tags[i].key)
         THEN Raised("InvalidTagsException", "Not allowed to modify system tags")
         ELSE NoError

\* validate_tags: the exception it raises, NoError when it returns
validate_tags(entity, tags) ==
    IF \E i \in DOMAIN tags : StartsWithAws(tags[i].key)
    THEN Raised("InvalidTagsException", "Not allowed to modify system tags")
    ELSE IF Cardinality(DOMAIN entity.tags) + Len(tags) > TagLimit
         THEN Raised("TooManyTagsException", "Tag limit exceeded")
         ELSE NoError

\* the dict after "for tag in tags: d.update({tag.key: tag.value})": every key of
\* the list is set, to the value of its last occurrence in the list
UpdateTags(d, tags) ==
    LET Occ(k)  == {i \in DOMAIN tags : tags[i].key = k}
        Last(k) == CHOOSE i \in Occ(k) : \A j \in Occ(k) : j <= i
    IN  [k \in (DOMAIN d) \cup {tags[i].key : i \in DOMAIN tags} |->
            IF Occ(k) # {} THEN tags[Last(k)].value ELSE d[k]]

\* the dict after "for key in tag_keys: d.pop(key, None)"
PopTags(d, keys) == [k \in (DOMAIN d) \ {keys[i] : i \in DOMAIN keys} |-> d[k]]

\* get_role_by_arn and the trust check of create_pipeline: TRUE when the role
\* exists and names codepipeline.amazonaws.com as Service principal
RoleTrustsCodePipeline(roleArn) ==
    /\ roleArn \in DOMAIN iam_roles
    /\ \E i \in DOMAIN iam_roles[roleArn] :
           iam_roles[roleArn][i] = "codepipeline.amazonaws.com"

CPCall(op, name, err) == [op |-> op, name |-> name, err |-> err]

\* a call that returned the list result
CPReturn(op, name, result) ==
    [op |-> op, name |-> name, err |-> NoError, result |-> result]

\* str(id): the decimal digits of a key id
RECURSIVE Digits(_)
Digits(n) == IF n < 10 THEN <<n>> ELSE Append(Digits(n \div 10), n % 10)

\* a < b for two digit texts (Python's order of str)
TextLess(a, b) ==
    \E i \in 1..Len(b) :
        /\ \A j \in 1..(i - 1) : j <= Len(a) /\ a[j] = b[j]
        /\ (i > Len(a) \/ a[i] < b[i])

\* k1 < k2 for two user keys
KeyLess(k1, k2) == TextLess(Digits(k1.id), Digits(k2.id))

\* the ids of the user keys of the model
KeyIds == 1..(TagLimit + 2)

\* the user keys in ascending order of their text: 1, 10, 11, ..., 19, 2, 20, ...
KeysAscending ==
    [i \in 1..Cardinality(KeyIds) |->
        UserKey(CHOOSE k \in KeyIds :
                    Cardinality({x \in KeyIds : TextLess(Digits(x), Digits(k))}) = i - 1)]

\* the names in ascending order of their text
NamesAscending == <<"p1", "p2">>

\* a < b for two pipeline names
NameLess(a, b) ==
    \E i, j \in DOMAIN NamesAscending :
        NamesAscending[i] = a /\ NamesAscending[j] = b /\ i < j

\* self.pipelines.items(): the names in the order they were put in the dict,
\* which is the order of the entities' creation
RECURSIVE ItemsOrder(_, _)
ItemsOrder(d, left) ==
    IF left = {} THEN <<>>
    ELSE LET first == CHOOSE n \in left : \A o \in left : d[n].created <= d[o].created
         IN  <<first>> \o ItemsOrder(d, left \ {first})

\* sorted(entries, key=name): an insertion sort, stable as Python's
RECURSIVE SortedByName(_)
SortedByName(entries) ==
    IF entries = <<>> THEN <<>>
    ELSE LET rest == SortedByName(SubSeq(entries, 1, Len(entries) - 1))
             e    == entries[Len(entries)]
             keep == Cardinality({i \in DOMAIN rest : ~NameLess(e.name, rest[i].name)})
         IN  SubSeq(rest, 1, keep) \o <<e>> \o SubSeq(rest, keep + 1, Len(rest))

\* the list list_pipelines builds, before it is sorted
PipelineEntries(d) ==
    LET order == ItemsOrder(d, DOMAIN d)
    IN  [i \in DOMAIN order |->
            [name    |-> order[i],
             version |-> d[order[i]].pipeline.version,
             created |-> d[order[i]].created,
             updated |-> d[order[i]].updated]]

\* as ListPipelinesResult, without the sort
ListPipelinesResultUnsorted(d) == PipelineEntries(d)

\* what list_pipelines returns for the store d
ListPipelinesResult(d) == SortedByName(PipelineEntries(d))

\* what list_tags_for_resource returns for the tags dict: one entry per key,
\* sorted by key; the keys of a dict are distinct, so these are the entries in
\* the ascending order of the keys whatever the order of the dict
ListTagsResult(tags) ==
    LET keys == SelectSeq(KeysAscending, LAMBDA k : k \in DOMAIN tags)
    IN  [i \in DOMAIN keys |-> Tag(keys[i], tags[keys[i]])]

----------------------------------------------------------------------------
(* CodePipelineBackend.                                                    *)

InitCP ==
    /\ pipelines = EmptyDict
    /\ clock = 0
    /\ cp_last = CPCall("__init__", "", NoError)

\* a slip of CreatePrecheck: the name is not looked up in the store
CreatePrecheckNoLookup(pipeline) ==
    IF ~RoleTrustsCodePipeline(pipeline.roleArn)
    THEN Raised("InvalidStructureException", "not authorized to perform AssumeRole")
    ELSE IF Len(pipeline.stages) < 2
         THEN Raised("InvalidStructureException", "minimum of 2 stages")
         ELSE NoError

\* as CreatePrecheck, accepting a pipeline of one stage
CreatePrecheckOneStage(pipeline) ==
    IF pipeline.name \in DOMAIN pipelines
    THEN Raised("InvalidStructureException", "already exists")
    ELSE IF ~RoleTrustsCodePipeline(pipeline.roleArn)
         THEN Raised("InvalidStructureException", "not authorized to perform AssumeRole")
         ELSE IF Len(pipeline.stages) < 1
              THEN Raised("InvalidStructureException", "minimum of 2 stages")
              ELSE NoError

\* the exception create_pipeline raises before it stores anything, or NoError
CreatePrecheck(pipeline) ==
    IF pipeline.name \in DOMAIN pipelines
    THEN Raised("InvalidStructureException", "already exists")
    ELSE IF ~RoleTrustsCodePipeline(pipeline.roleArn)
         THEN Raised("InvalidStructureException", "not authorized to perform AssumeRole")
         ELSE IF Len(pipeline.stages) < 2
              THEN Raised("InvalidStructureException", "minimum of 2 stages")
              ELSE NoError

create_pipeline(pipeline, tags) ==
    LET pre    == CreatePrecheck(pipeline)
        entity == NewCodePipeline(pipeline, clock)
        tagerr == IF tags # <<>> THEN validate_tags(entity, tags) ELSE NoError
    IN  IF pre # NoError
        THEN /\ cp_last' = CPCall("create_pipeline", pipeline.name, pre)
             /\ UNCHANGED <<pipelines, clock>>
        ELSE /\ clock < MaxClock
             /\ clock' = clock + 1
             \* the entity is stored before its tags are validated
             /\ pipelines' =
                    SetItem(pipelines, pipeline.name,
                            IF tagerr = NoError
                            THEN [entity EXCEPT !.tags = UpdateTags(@, tags)]
                            ELSE entity)
             /\ cp_last' = CPCall("create_pipeline", pipeline.name, tagerr)

\* get_pipeline reads the store and returns or raises
get_pipeline(name) ==
    /\ cp_last' = CPCall("get_pipeline", name,
                         IF name \in DOMAIN pipelines THEN NoError
                         ELSE Raised("PipelineNotFoundException", "no such pipeline"))
    /\ UNCHANGED <<pipelines, clock>>

\* a slip of UpdatedPipeline: a version carried by the payload is kept
UpdatedPipelineKeepsPayloadVersion(codepipeline, pipeline) ==
    add_default_values(
        IF "version" \in DOMAIN pipeline THEN pipeline
        ELSE SetItem(pipeline, "version", codepipeline.pipeline.version + 1))

\* the definition update_pipeline stores: the payload with the version set to
\* the stored version + 1 and the defaults filled
UpdatedPipeline(codepipeline, pipeline) ==
    add_default_values(SetItem(pipeline, "version", codepipeline.pipeline.version + 1))

\* as update_pipeline, creating the pipeline when the name is not stored
update_pipeline_upsert(pipeline) ==
    /\ clock < MaxClock
    /\ clock' = clock + 1
    /\ pipelines' =
           IF pipeline.name \notin DOMAIN pipelines
           THEN SetItem(pipelines, pipeline.name, NewCodePipeline(pipeline, clock))
           ELSE [pipelines EXCEPT ![pipeline.name] =
                    [@ EXCEPT !.updated = clock,
                              !.pipeline = UpdatedPipeline(pipelines[pipeline.name],
                                                           pipeline)]]
    /\ cp_last' = CPCall("update_pipeline", pipeline.name, NoError)

update_pipeline(pipeline) ==
    IF pipeline.name \notin DOMAIN pipelines
    THEN /\ cp_last' = CPCall("update_pipeline", pipeline.name,
                              Raised("ResourceNotFoundException", "no such pipeline"))
         /\ UNCHANGED <<pipelines, clock>>
    ELSE /\ clock < MaxClock
         /\ clock' = clock + 1
         /\ pipelines' =
                [pipelines EXCEPT ![pipeline.name] =
                    [@ EXCEPT !.updated = clock,
                              !.pipeline = UpdatedPipeline(pipelines[pipeline.name],
                                                           pipeline)]]
         /\ cp_last' = CPCall("update_pipeline", pipeline.name, NoError)

\* as delete_pipeline, raising for a name that is not stored
delete_pipeline_strict(name) ==
    /\ pipelines' = PopItem(pipelines, name)
    /\ cp_last' = CPCall("delete_pipeline", name,
                         IF name \in DOMAIN pipelines THEN NoError
                         ELSE Raised("PipelineNotFoundException", "no such pipeline"))
    /\ UNCHANGED clock

delete_pipeline(name) ==
    /\ pipelines' = PopItem(pipelines, name)
    /\ cp_last' = CPCall("delete_pipeline", name, NoError)
    /\ UNCHANGED clock

\* list_pipelines reads the store and returns one entry per pipeline
list_pipelines ==
    /\ cp_last' = CPReturn("list_pipelines", "", ListPipelinesResult(pipelines))
    /\ UNCHANGED <<pipelines, clock>>

\* list_tags_for_resource reads the store and returns the tags or raises
list_tags_for_resource(arn) ==
    LET name == NameOfArn(arn)
    IN  /\ cp_last' = IF name \in DOMAIN pipelines
                      THEN CPReturn("list_tags_for_resource", name,
                                    ListTagsResult(pipelines[name].tags))
                      ELSE CPCall("list_tags_for_resource", name,
                                  Raised("ResourceNotFoundException", "no such pipeline"))
        /\ UNCHANGED <<pipelines, clock>>

tag_resource(arn, tags) ==
    LET name == NameOfArn(arn)
    IN  IF name \notin DOMAIN pipelines
        THEN /\ cp_last' = CPCall("tag_resource", name,
                                  Raised("ResourceNotFoundException", "no such pipeline"))
             /\ UNCHANGED <<pipelines, clock>>
        ELSE LET err == validate_tags(pipelines[name], tags)
             IN  /\ pipelines' =
                        IF err = NoError
                        THEN [pipelines EXCEPT ![name].tags = UpdateTags(@, tags)]
                        ELSE pipelines
                 /\ cp_last' = CPCall("tag_resource", name, err)
                 /\ UNCHANGED clock

untag_resource(arn, tag_keys) ==
    LET name == NameOfArn(arn)
    IN  IF name \notin DOMAIN pipelines
        THEN /\ cp_last' = CPCall("untag_resource", name,
                                  Raised("ResourceNotFoundException", "no such pipeline"))
             /\ UNCHANGED <<pipelines, clock>>
        ELSE /\ pipelines' = [pipelines EXCEPT ![name].tags = PopTags(@, tag_keys)]
             /\ cp_last' = CPCall("untag_resource", name, NoError)
             /\ UNCHANGED clock

\* CodePipelineBackend.reset: the backend is constructed again
reset ==
    /\ pipelines' = EmptyDict
    /\ cp_last' = CPCall("reset", "", NoError)
    /\ UNCHANGED clock

----------------------------------------------------------------------------
(* SES: strings, bounds and inputs.                                        *)
(*                                                                         *)
(* An address or domain string is a sequence of tokens; "@" is a token of  *)
(* its own, a display name and its "<" are one token, the closing ">" is   *)
(* one token.  <<"Bob <", "u", "@", "d1.com", ">">> is "Bob <u@d1.com>".   *)

\* the sends stop once the messages logged and rejected together reach MaxSend
MaxSend == 2

\* verify_email_address stops once email_addresses holds this many entries
MaxEmailAddresses == 1

RECIPIENT_LIMIT == 50

HasAt(s) == \E i \in DOMAIN s : s[i] = "@"

FirstAt(s) == CHOOSE i \in DOMAIN s : s[i] = "@" /\ \A j \in 1..(i - 1) : s[j] # "@"

\* email.utils.parseaddr(s)[1]: the address without display name and brackets
parseaddr(s) ==
    IF Len(s) >= 2 /\ s[1] \in {"Bob <", "Ann <"} /\ s[Len(s)] = ">"
    THEN SubSeq(s, 2, Len(s) - 1)
    ELSE s

\* email.utils.formataddr((realname, address))
formataddr(realname, address) ==
    IF realname = "" THEN address ELSE <<realname \o " <">> \o address \o <<">">>

\* s.split("@", 1)[-1]: what follows the first "@"; all of s when it has none
AfterFirstAt(s) == IF HasAt(s) THEN SubSeq(s, FirstAt(s) + 1, Len(s)) ELSE s

\* s.split("@")[1]: what lies between the first "@" and the next one (or the end)
SecondPart(s) ==
    LET rest == SubSeq(s, FirstAt(s) + 1, Len(s))
    IN  IF HasAt(rest) THEN SubSeq(rest, 1, FirstAt(rest) - 1) ELSE rest

\* str.lower() on a domain
lower(s) == [i \in DOMAIN s |-> IF s[i] = "D2.COM" THEN "d2.com" ELSE s[i]]

\* word in s
Contains(s, word) == \E i \in DOMAIN s : s[i] = word

\* x in list
InList(x, list) == \E i \in DOMAIN list : list[i] = x

\* utils.is_valid_address: None for local@domain with a non-empty domain,
\* otherwise the message "Missing domain"
is_valid_address(addr) ==
    LET address == parseaddr(addr)
    IN  IF HasAt(address) /\ AfterFirstAt(address) # <<>> /\ ~HasAt(AfterFirstAt(address))
        THEN "None" ELSE "Missing domain"

\* utils.get_random_message_id(): an opaque random id; no method reads it
get_random_message_id == "<random-message-id>"

NAMED    == <<"Bob <", "u", "@", "d1.com", ">">>
\* the address of NAMED without the display name
PLAIN    == <<"u", "@", "d1.com">>
NOAT     == <<"d2.com">>
NOBODY   == <<"nobody">>
RCPT     == <<"r", "@", "d4.com">>
\* an address of the mailbox simulator: it holds SESFeedback.SUCCESS_ADDR
SUCCESS  == <<"success", "@", "simulator.amazonses.com">>

\* addresses of the mailbox simulator that hold the other two reserved words
COMPLAINT == <<"complaint", "@", "simulator.amazonses.com">>
BOUNCE    == <<"bounce", "@", "simulator.amazonses.com">>

\* destinations of the sends with feedback: a success address after a plain
\* one, a complaint address in To with a success and a bounce address in the
\* later lists, no reserved word, a malformed address
FeedbackDestinations ==
    { [ToAddresses |-> <<RCPT, SUCCESS>>],
      [CcAddresses |-> <<SUCCESS>>, BccAddresses |-> <<BOUNCE>>,
       ToAddresses |-> <<COMPLAINT>>],
      [ToAddresses |-> <<RCPT>>],
      [ToAddresses |-> <<NOBODY>>] }

\* the identities notification topics are set for: a domain and an address
TopicIdentities == {<<"d1.com">>, PLAIN}

\* the topic ARN set for an identity and a notification type
TopicOf(identity, type) ==
    <<"arn:aws:sns:", IF identity = PLAIN THEN "address" ELSE "domain", type>>

\* no value (Python's None) where a string is optional
None == <<"<None>">>

\* the Source of a send: an address with a display name (verify_email_identity
\* and verify_email_address verify it), the bare name of a domain
\* (verify_domain verifies it), a bare word
Sources == {NAMED, NOAT, NOBODY}

\* n times the address a
Times(n, a) == [i \in 1..n |-> a]

\* exactly 50 recipients over two lists
Dest50 == [ToAddresses |-> Times(25, RCPT), CcAddresses |-> Times(25, SUCCESS)]
\* 51 recipients over two lists, the last one malformed
Dest51 == [ToAddresses |-> Times(50, RCPT), BccAddresses |-> <<NOBODY>>]
\* one malformed recipient
DestBad == [ToAddresses |-> <<NOBODY>>]

Destinations == {Dest50, Dest51, DestBad}

\* the Template parameter of a templated send: a list whose first item is the name
TemplateArgs == {<<"t1">>, <<"missing">>}

\* bulk destinations: two entries with a malformed address (2 recipients), two
\* entries with 51 recipients together, 51 entries without recipients
BulkBad     == <<[Destination |-> DestBad], [Destination |-> [ToAddresses |-> <<RCPT>>]]>>
BulkTotal51 == <<[Destination |-> Dest50], [Destination |-> DestBad]>>
Bulk51      == Times(51, [Destination |-> [ToAddresses |-> <<>>]])

BulkDestinations == {BulkBad, BulkTotal51, Bulk51}

\* a raw message as email.message_from_string parses it: header name -> value;
\* the value of from is an address string, the value of TO, CC, BCC is the
\* list of (realname, address) pairs getaddresses finds in it
RawFromTo == [from |-> NAMED, TO |-> <<<<"", SUCCESS>>>>]
RawToOnly == [TO |-> <<<<"Ann", NOBODY>>>>]

RawMessages == {RawFromTo, RawToOnly}

\* the Source of send_raw_email: absent (None) or an address
RawSources == {None, NOAT, NOBODY}

RawDestinations == {<<>>, Times(50, RCPT)}

TemplateInfos ==
    { [template_name |-> "t1", subject_part |-> "Hello"],
      [template_name |-> "t2", subject_part |-> ""] }

SESCall(op, err) == [op |-> op, err |-> err]

----------------------------------------------------------------------------
(* SESBackend.                                                             *)

InitSES ==
    /\ addresses = <<>>
    /\ email_addresses = <<>>
    /\ domains = <<>>
    /\ templates = EmptyDict
    /\ sns_topics = EmptyDict
    /\ sent_messages = <<>>
    /\ sent_message_count = 0
    /\ rejected_messages_count = 0
    /\ sns_published = <<>>
    /\ ses_last = SESCall("__init__", NoError)

_is_verified_address(source) ==
    LET address == parseaddr(source)
        host    == AfterFirstAt(address)
    IN  \/ InList(address, addresses)
        \/ InList(address, email_addresses)
        \/ InList(host, domains)

verify_email_identity(address) ==
    /\ addresses' = IF InList(parseaddr(address), addresses) THEN addresses
                    ELSE Append(addresses, parseaddr(address))
    /\ ses_last' = SESCall("verify_email_identity", NoError)
    /\ UNCHANGED <<email_addresses, domains, templates, sns_topics, sent_messages,
                   sent_message_count, rejected_messages_count, sns_published>>

\* list.remove(x): the list without the first element equal to x
RemoveFirst(list, x) ==
    LET first == CHOOSE i \in DOMAIN list : list[i] = x /\ \A j \in 1..(i - 1) : list[j] # x
    IN  SubSeq(list, 1, first - 1) \o SubSeq(list, first + 1, Len(list))

\* the identities delete_identity is called with
DeletedIdentities == {PLAIN, NAMED, <<"d1.com">>}

\* removes the identity from addresses when it has an "@", else from domains;
\* list.remove raises ValueError when the list does not hold it
delete_identity(identity) ==
    LET is_address == Contains(identity, "@")
        list == IF is_address THEN addresses ELSE domains
        err == IF InList(identity, list) THEN NoError
               ELSE Raised("ValueError", "list.remove(x): x not in list")
    IN  /\ addresses' = IF is_address /\ err = NoError
                        THEN RemoveFirst(addresses, identity) ELSE addresses
        /\ domains' = IF ~is_address /\ err = NoError
                      THEN RemoveFirst(domains, identity) ELSE domains
        /\ ses_last' = [op |-> "delete_identity", err |-> err, identity |-> identity]
        /\ UNCHANGED <<email_addresses, templates, sns_topics, sent_messages,
                       sent_message_count, rejected_messages_count, sns_published>>

verify_domain(domain) ==
    /\ domains' = IF InList(lower(domain), domains) THEN domains
                  ELSE Append(domains, lower(domain))
    /\ ses_last' = SESCall("verify_domain", NoError)
    /\ UNCHANGED <<addresses, email_addresses, templates, sns_topics, sent_messages,
                   sent_message_count, rejected_messages_count, sns_published>>

add_template(template_info) ==
    LET template_name == template_info.template_name
        err == IF template_name = ""
               THEN Raised("ValidationError", "Value null at 'template.templateName'")
               ELSE IF template_name \in DOMAIN templates
                    THEN Raised("TemplateNameAlreadyExists", "Duplicate Template Name.")
                    ELSE IF template_info.subject_part = ""
                         THEN Raised("InvalidParameterValue", "The subject must be specified.")
                         ELSE NoError
    IN  /\ templates' = IF err = NoError
                        THEN SetItem(templates, template_name, template_info)
                        ELSE templates
        /\ ses_last' = SESCall("add_template", err)
        /\ UNCHANGED <<addresses, email_addresses, domains, sns_topics, sent_messages,
                       sent_message_count, rejected_messages_count, sns_published>>

\* the topic is a string here; the call with sns_topic None (which deletes the
\* entry) is not among the inputs
set_identity_notification_topic(identity, notification_type, sns_topic) ==
    LET identity_sns_topics == IF identity \in DOMAIN sns_topics
                               THEN sns_topics[identity] ELSE EmptyDict
    IN  /\ sns_topics' = SetItem(sns_topics, identity,
                                 SetItem(identity_sns_topics, notification_type, sns_topic))
        /\ ses_last' = SESCall("set_identity_notification_topic", NoError)
        /\ UNCHANGED <<addresses, email_addresses, domains, templates, sent_messages,
                       sent_message_count, rejected_messages_count, sns_published>>

\* sum(map(len, destinations.values()))
RECURSIVE SumLen(_, _)
SumLen(d, keys) ==
    IF keys = {} THEN 0
    ELSE LET k == CHOOSE x \in keys : TRUE
         IN  Len(d[k]) + SumLen(d, keys \ {k})

\* as RecipientCount, counting the ToAddresses only
RecipientCountToOnly(destinations) ==
    IF "ToAddresses" \in DOMAIN destinations THEN Len(destinations["ToAddresses"]) ELSE 0

RecipientCount(destinations) == SumLen(destinations, DOMAIN destinations)

\* the addresses of all lists of a destination dict (the order does not matter
\* to the syntax check: every malformed address gives the same message)
DestinationAddresses(destinations) ==
    UNION { {destinations[k][i] : i \in DOMAIN destinations[k]} : k \in DOMAIN destinations }

\* destinations.get(key, [])
GetList(destinations, key) ==
    IF key \in DOMAIN destinations THEN destinations[key] ELSE <<>>

\* __type_of_message__ on the list of addresses it scans
RECURSIVE TypeOfAddresses(_)
TypeOfAddresses(alladdress) ==
    IF alladdress = <<>> THEN "None"
    ELSE LET addr == Head(alladdress)
         IN  IF Contains(addr, "success") THEN "Delivery"
             ELSE IF Contains(addr, "complaint") THEN "Complaint"
                  ELSE IF Contains(addr, "bounce") THEN "Bounce"
                       ELSE TypeOfAddresses(Tail(alladdress))

\* __type_of_message__ for the destination dict of send_email and
\* send_templated_email
TypeOfDict(destinations) ==
    TypeOfAddresses(GetList(destinations, "ToAddresses")
                    \o GetList(destinations, "CcAddresses")
                    \o GetList(destinations, "BccAddresses"))

\* __type_of_message__ for the destination list of send_bulk_templated_email:
\* its items are dicts with the key Destination, and "success" in <dict> tests
\* the keys, so no item matches
TypeOfBulk(destinations) == "None"

\* __process_sns_feedback__: the notifications it publishes (none or one),
\* given the source and the message type found in the destinations
process_sns_feedback(source, msg_type) ==
    LET domain == IF HasAt(source) THEN SecondPart(source) ELSE source
    IN  IF /\ domain \in DOMAIN sns_topics
           /\ msg_type # "None"
           /\ msg_type \in DOMAIN sns_topics[domain]
        THEN <<[arn |-> sns_topics[domain][msg_type], type |-> msg_type]>>
        ELSE <<>>

\* the model's cap on the length of a run: a send runs while SendBudget holds
SendBudget == Len(sent_messages) + rejected_messages_count < MaxSend

\* a send raises err and changes nothing
SendFails(op, err) ==
    /\ ses_last' = SESCall(op, err)
    /\ UNCHANGED <<addresses, email_addresses, domains, templates, sns_topics,
                   sent_messages, sent_message_count, rejected_messages_count,
                   sns_published>>

\* a send counts a rejected message and raises err
SendRejected(op, err) ==
    /\ rejected_messages_count' = rejected_messages_count + 1
    /\ ses_last' = SESCall(op, err)
    /\ UNCHANGED <<addresses, email_addresses, domains, templates, sns_topics,
                   sent_messages, sent_message_count, sns_published>>

\* as SendDelivers, with the message put at the front of the log
SendDeliversAtFront(op, message, recipient_count, feedback) ==
    /\ sns_published' = sns_published \o feedback
    /\ sent_messages' = <<message>> \o sent_messages
    /\ sent_message_count' = sent_message_count + recipient_count
    /\ ses_last' = SESCall(op, NoError)
    /\ UNCHANGED <<addresses, email_addresses, domains, templates, sns_topics,
                   rejected_messages_count>>

\* a send publishes its feedback, logs message and counts its recipients
SendDelivers(op, message, recipient_count, feedback) ==
    /\ sns_published' = sns_published \o feedback
    /\ sent_messages' = Append(sent_messages, message)
    /\ sent_message_count' = sent_message_count + recipient_count
    /\ ses_last' = SESCall(op, NoError)
    /\ UNCHANGED <<addresses, email_addresses, domains, templates, sns_topics,
                   rejected_messages_count>>

\* the errors of the sends; the messages of NotVerified and NoAuthority end with
\* the source address in the code, those of NoTemplate name the template
TooManyRecipients == Raised("MessageRejectedError", "Too many recipients.")
TooManyDestinations == Raised("MessageRejectedError", "Too many destinations.")
NotVerified == Raised("MessageRejectedError", "Email address not verified")
NoAuthority == Raised("MessageRejectedError", "Did not have authority to send from email")
SourceNotSpecified == Raised("MessageRejectedError", "Source not specified")
MissingDomain == Raised("InvalidParameterValue", "Missing domain")
NoTemplate == Raised("TemplateDoesNotExist", "Template does not exist")

\* some address of the set fails is_valid_address
SomeInvalid(addrs) == \E a \in addrs : is_valid_address(a) # "None"

send_email(source, subject, body, destinations) ==
    LET recipient_count == RecipientCount(destinations)
    IN  /\ SendBudget
        /\ IF recipient_count > RECIPIENT_LIMIT
           THEN SendFails("send_email", TooManyRecipients)
           ELSE IF ~_is_verified_address(source)
                THEN SendRejected("send_email", NotVerified)
                ELSE IF SomeInvalid({source} \cup DestinationAddresses(destinations))
                     THEN SendFails("send_email", MissingDomain)
                     ELSE SendDelivers("send_email",
                              [kind |-> "Message", id |-> get_random_message_id,
                               source |-> source, subject |-> subject, body |-> body,
                               destinations |-> destinations],
                              recipient_count,
                              process_sns_feedback(source, TypeOfDict(destinations)))

send_templated_email(source, template, template_data, destinations) ==
    LET recipient_count == RecipientCount(destinations)
    IN  /\ SendBudget
        /\ IF recipient_count > RECIPIENT_LIMIT
           THEN SendFails("send_templated_email", TooManyRecipients)
           ELSE IF ~_is_verified_address(source)
                THEN SendRejected("send_templated_email", NotVerified)
                ELSE IF SomeInvalid({source} \cup DestinationAddresses(destinations))
                     THEN SendFails("send_templated_email", MissingDomain)
                     ELSE IF template[1] \notin DOMAIN templates
                          THEN SendFails("send_templated_email", NoTemplate)
                          ELSE SendDelivers("send_templated_email",
                                   [kind |-> "TemplateMessage",
                                    id |-> get_random_message_id, source |-> source,
                                    template |-> template,
                                    template_data |-> template_data,
                                    destinations |-> destinations],
                                   recipient_count,
                                   process_sns_feedback(source, TypeOfDict(destinations)))

\* sum over the entries of the recipients of their Destination
RECURSIVE TotalRecipients(_)
TotalRecipients(destinations) ==
    IF destinations = <<>> THEN 0
    ELSE RecipientCount(Head(destinations).Destination)
         + TotalRecipients(Tail(destinations))

send_bulk_templated_email(source, template, template_data, destinations) ==
    LET recipient_count == Len(destinations)
        total_recipient_count == TotalRecipients(destinations)
    IN  /\ SendBudget
        /\ IF recipient_count > RECIPIENT_LIMIT
           THEN SendFails("send_bulk_templated_email", TooManyDestinations)
           ELSE IF total_recipient_count > RECIPIENT_LIMIT
                THEN SendFails("send_bulk_templated_email", TooManyDestinations)
                ELSE IF ~_is_verified_address(source)
                     THEN SendRejected("send_bulk_templated_email", NotVerified)
                     ELSE IF template[1] \notin DOMAIN templates
                          THEN SendFails("send_bulk_templated_email", NoTemplate)
                          ELSE SendDelivers("send_bulk_templated_email",
                                   [kind |-> "TemplateMessage",
                                    id |-> get_random_message_id, source |-> source,
                                    template |-> template,
                                    template_data |-> template_data,
                                    destinations |-> destinations],
                                   total_recipient_count,
                                   process_sns_feedback(source, TypeOfBulk(destinations)))

\* the recipients send_raw_email reads from the headers TO, CC and BCC
HeaderRecipients(message) ==
    LET Of(header) ==
            IF header \in DOMAIN message
            THEN SelectSeq(message[header], LAMBDA pair : pair[2] # <<>>)
            ELSE <<>>
        pairs == Of("TO") \o Of("CC") \o Of("BCC")
    IN  [i \in DOMAIN pairs |-> formataddr(pairs[i][1], pairs[i][2])]

send_raw_email(source, destinations, raw_data) ==
    LET message == raw_data
        \* the source after the header lookup
        sender == IF source # None THEN source
                  ELSE IF "from" \in DOMAIN message THEN parseaddr(message["from"])
                       ELSE None
        all_destinations == destinations \o HeaderRecipients(message)
    IN  /\ SendBudget
        /\ IF source # None /\ ~_is_verified_address(parseaddr(source))
           THEN SendFails("send_raw_email", NoAuthority)
           ELSE IF source = None /\ "from" \notin DOMAIN message
                THEN SendFails("send_raw_email", SourceNotSpecified)
                ELSE IF source = None /\ ~_is_verified_address(sender)
                     THEN SendFails("send_raw_email", NoAuthority)
                     ELSE IF Len(all_destinations) > RECIPIENT_LIMIT
                          THEN SendFails("send_raw_email", TooManyRecipients)
                          ELSE IF SomeInvalid({sender} \cup
                                      {all_destinations[i] : i \in DOMAIN all_destinations})
                               THEN SendFails("send_raw_email", MissingDomain)
                               ELSE SendDelivers("send_raw_email",
                                        [kind |-> "RawMessage",
                                         id |-> get_random_message_id,
                                         source |-> sender,
                                         destinations |-> all_destinations,
                                         raw_data |-> raw_data],
                                        Len(all_destinations),
                                        process_sns_feedback(sender,
                                            TypeOfAddresses(all_destinations)))

verify_email_address(address) ==
    /\ Len(email_addresses) < MaxEmailAddresses
    /\ email_addresses' = Append(email_addresses, parseaddr(address))
    /\ ses_last' = SESCall("verify_email_address", NoError)
    /\ UNCHANGED <<addresses, domains, templates, sns_topics, sent_messages,
                   sent_message_count, rejected_messages_count, sns_published>>

----------------------------------------------------------------------------
(* SES configuration sets and their paginated listing.                     *)

\* the largest MaxItems the listing client asks for
MaxPageSize == 3

SetNames == {"a", "b", "c", "d"}

\* PAGINATION_MODEL["list_configuration_sets"]
limit_default == 100
unique_attribute(item) == item.configuration_set_name

\* ConfigurationSet.__init__
NewConfigurationSet(configuration_set_name, tracking_options, delivery_options, reputation_options, sending_options, tags, suppression_options, vdm_options) ==
    [configuration_set_name |-> configuration_set_name,
     tracking_options |-> tracking_options,
     delivery_options |-> delivery_options,
     reputation_options |-> reputation_options,
     enabled |-> sending_options,
     tags |-> tags,
     suppression_options |-> suppression_options,
     vdm_options |-> vdm_options]

\* ConfigurationSet(configuration_set_name=...), the other fields at their
\* defaults: each default is one dict made when the class is defined, and
\* reputation_options, the one a method writes to, holds what was written
ConfigurationSet(configuration_set_name) ==
    NewConfigurationSet(configuration_set_name, EmptyDict, EmptyDict,
                        default_reputation_options, EmptyDict, <<>>, EmptyDict, EmptyDict)

\* the names create_configuration_set_v2 is called with, and its options
V2Names == {"a"}
V2Options ==
    [tracking_options |-> EmptyDict,
     delivery_options |-> [TlsPolicy |-> "REQUIRE"],
     reputation_options |-> [ReputationMetricsEnabled |-> TRUE],
     sending_options |-> [SendingEnabled |-> TRUE],
     tags |-> <<[Key |-> "k", Value |-> "v"]>>,
     suppression_options |-> EmptyDict,
     vdm_options |-> EmptyDict]

CSCall(op, name, err) == [op |-> op, name |-> name, err |-> err]

\* a call that returned result
CSReturn(op, name, result) ==
    [op |-> op, name |-> name, err |-> NoError, result |-> result]

InitPage ==
    /\ config_sets = <<>>
    /\ default_reputation_options = EmptyDict
    /\ default_sharers = {}
    /\ other_config_sets = <<>>
    /\ config_set_event_destination = EmptyDict
    /\ event_destinations = EmptyDict
    /\ cs_last = CSCall("__init__", "", NoError)
    /\ pg_phase = "idle"
    /\ pg_params = EmptyDict
    /\ pg_token = None
    /\ pg_items = <<>>
    /\ pg_calls = 0

\* name in self.config_sets
HasConfigSet(name) == \E i \in DOMAIN config_sets : unique_attribute(config_sets[i]) = name

\* the listing client starts over when the store changes
ClientIdle ==
    /\ pg_phase' = "idle"
    /\ pg_params' = EmptyDict
    /\ pg_token' = None
    /\ pg_items' = <<>>
    /\ pg_calls' = 0

\* self.config_sets[name]
ConfigSetNamed(name) ==
    config_sets[CHOOSE i \in DOMAIN config_sets : unique_attribute(config_sets[i]) = name]

AlreadyExists(name) == Raised("ConfigurationSetAlreadyExists", name)

\* raises ConfigurationSetAlreadyExists for a stored name
create_configuration_set(configuration_set_name) ==
    /\ pg_phase # "paging"
    /\ config_sets' = IF HasConfigSet(configuration_set_name) THEN config_sets
                      ELSE Append(config_sets, ConfigurationSet(configuration_set_name))
    /\ cs_last' = CSCall("create_configuration_set", configuration_set_name,
                         IF HasConfigSet(configuration_set_name)
                         THEN AlreadyExists(configuration_set_name) ELSE NoError)
    /\ default_sharers' = IF HasConfigSet(configuration_set_name) THEN default_sharers
                          ELSE default_sharers \cup {configuration_set_name}
    /\ UNCHANGED <<default_reputation_options, other_config_sets, evVars>>
    /\ ClientIdle

\* as create_configuration_set_v2, without the check of the name: the new set
\* takes the place of the stored one
create_configuration_set_v2_overwrite(configuration_set_name, tracking_options, delivery_options, reputation_options, sending_options, tags, suppression_options, vdm_options) ==
    LET new_config_set ==
            NewConfigurationSet(configuration_set_name, tracking_options,
                                delivery_options, reputation_options, sending_options,
                                tags, suppression_options, vdm_options)
    IN  /\ pg_phase # "paging"
        /\ config_sets' =
               IF HasConfigSet(configuration_set_name)
               THEN [i \in DOMAIN config_sets |->
                        IF unique_attribute(config_sets[i]) = configuration_set_name
                        THEN new_config_set ELSE config_sets[i]]
               ELSE Append(config_sets, new_config_set)
        /\ cs_last' = CSCall("create_configuration_set_v2", configuration_set_name, NoError)
        /\ UNCHANGED <<repVars, evVars>>
        /\ ClientIdle

\* raises ConfigurationSetAlreadyExists for a stored name
create_configuration_set_v2(configuration_set_name, tracking_options, delivery_options, reputation_options, sending_options, tags, suppression_options, vdm_options) ==
    LET new_config_set ==
            NewConfigurationSet(configuration_set_name, tracking_options,
                                delivery_options, reputation_options, sending_options,
                                tags, suppression_options, vdm_options)
    IN  /\ pg_phase # "paging"
        /\ config_sets' = IF HasConfigSet(configuration_set_name) THEN config_sets
                          ELSE Append(config_sets, new_config_set)
        /\ cs_last' = CSCall("create_configuration_set_v2", configuration_set_name,
                             IF HasConfigSet(configuration_set_name)
                             THEN AlreadyExists(configuration_set_name) ELSE NoError)
        /\ UNCHANGED <<repVars, evVars>>
        /\ ClientIdle

\* returns the stored set, raises ConfigurationSetDoesNotExist for a name that
\* is not stored
describe_configuration_set(configuration_set_name) ==
    /\ cs_last' = IF HasConfigSet(configuration_set_name)
                  THEN CSReturn("describe_configuration_set", configuration_set_name,
                                ConfigSetNamed(configuration_set_name))
                  ELSE CSCall("describe_configuration_set", configuration_set_name,
                              Raised("ConfigurationSetDoesNotExist",
                                     configuration_set_name))
    /\ UNCHANGED <<config_sets, pg_phase, pg_params, pg_token, pg_items, pg_calls>>
    /\ UNCHANGED <<repVars, evVars>>

\* self.config_sets.pop(name): raises KeyError for a name that is not stored
delete_configuration_set(configuration_set_name) ==
    /\ pg_phase # "paging"
    /\ config_sets' = SelectSeq(config_sets,
                           LAMBDA c : unique_attribute(c) # configuration_set_name)
    /\ cs_last' = CSCall("delete_configuration_set", configuration_set_name,
                         IF HasConfigSet(configuration_set_name) THEN NoError
                         ELSE Raised("KeyError", configuration_set_name))
    /\ default_sharers' = default_sharers \ {configuration_set_name}
    /\ UNCHANGED <<default_reputation_options, other_config_sets, evVars>>
    /\ ClientIdle

\* a reputation_options that is None: create_configuration_set_v2 was called
\* without ReputationOptions
NoOptions == [None |-> TRUE]

\* the names and values update_configuration_set_reputation_metrics_enabled is
\* called with, and the names the sets of the other region are created with
ReputationNames == {"a", "b", "c"}
OtherNames == {"a", "x"}

\* config_set.reputation_options["ReputationMetricsEnabled"] = enabled, on a new
\* dict when reputation_options is None
WithMetricsEnabled(reputation_options, enabled) ==
    IF reputation_options = NoOptions THEN [ReputationMetricsEnabled |-> enabled]
    ELSE SetItem(reputation_options, "ReputationMetricsEnabled", enabled)

\* the sets of a backend after the default dict has been written to: every set
\* of sharers holds that dict
DefaultWritten(sets, sharers, written) ==
    [i \in DOMAIN sets |->
        IF unique_attribute(sets[i]) \in sharers
        THEN [sets[i] EXCEPT !.reputation_options = written] ELSE sets[i]]

\* raises ConfigurationSetDoesNotExist for a name that is not stored; else
\* writes ReputationMetricsEnabled into the dict the set holds, which for a set
\* made by create_configuration_set is the default dict of
\* ConfigurationSet.__init__: the one dict every such set of every backend
\* holds, and every such set made later
update_configuration_set_reputation_metrics_enabled(configuration_set_name, enabled) ==
    /\ pg_phase # "paging"
    /\ IF ~HasConfigSet(configuration_set_name)
       THEN /\ cs_last' = CSCall("update_configuration_set_reputation_metrics_enabled",
                                 configuration_set_name,
                                 Raised("ConfigurationSetDoesNotExist", configuration_set_name))
            /\ UNCHANGED <<config_sets, repVars>>
       ELSE LET config_set == ConfigSetNamed(configuration_set_name)
                written == WithMetricsEnabled(config_set.reputation_options, enabled)
            IN  /\ cs_last' = CSCall("update_configuration_set_reputation_metrics_enabled",
                                     configuration_set_name, NoError)
                /\ IF configuration_set_name \in default_sharers
                   THEN /\ default_reputation_options' = written
                        /\ config_sets' = DefaultWritten(config_sets, default_sharers, written)
                        /\ other_config_sets' =
                               [i \in DOMAIN other_config_sets |->
                                   [other_config_sets[i] EXCEPT !.reputation_options = written]]
                        /\ UNCHANGED default_sharers
                   ELSE /\ config_sets' = DefaultWritten(config_sets, {configuration_set_name},
                                                         written)
                        /\ UNCHANGED repVars
    /\ UNCHANGED evVars
    /\ ClientIdle

\* the event destinations the calls give
EventDestinations ==
    { [Name |-> "e1", Enabled |-> TRUE], [Name |-> "e2", Enabled |-> TRUE],
      [Name |-> "e1", Enabled |-> FALSE] }

EventSetNames == {"a", "b"}

\* a call of create_configuration_set_event_destination and its outcome
CSEventCall(name, destination, err) ==
    [op |-> "create_configuration_set_event_destination", name |-> name,
     destination |-> destination, err |-> err]

\* raises ConfigurationSetDoesNotExist for a name that is not stored and
\* EventDestinationAlreadyExists for a recorded destination name; else the
\* destination takes the place of the one the set has and its name is recorded
create_configuration_set_event_destination(configuration_set_name, event_destination) ==
    /\ pg_phase # "paging"
    /\ IF ~HasConfigSet(configuration_set_name)
       THEN /\ cs_last' = CSEventCall(configuration_set_name, event_destination.Name,
                                      Raised("ConfigurationSetDoesNotExist",
                                             "Invalid Configuration Set Name."))
            /\ UNCHANGED evVars
       ELSE IF event_destination.Name \in DOMAIN event_destinations
       THEN /\ cs_last' = CSEventCall(configuration_set_name, event_destination.Name,
                                      Raised("EventDestinationAlreadyExists",
                                             "Duplicate Event destination Name."))
            /\ UNCHANGED evVars
       ELSE /\ config_set_event_destination' =
                   SetItem(config_set_event_destination, configuration_set_name,
                           event_destination)
            /\ event_destinations' = SetItem(event_destinations, event_destination.Name, 1)
            /\ cs_last' = CSEventCall(configuration_set_name, event_destination.Name, NoError)
    /\ UNCHANGED <<config_sets, repVars>>
    /\ ClientIdle

\* the event_destination None of the response
NoDestination == [None |-> TRUE]

\* EventDestinations of the response of describe_configuration_set asked for
\* eventDestinations: config_set_event_destination.get(name)
DescribedEventDestinations(destinations, configuration_set_name) ==
    IF configuration_set_name \in DOMAIN destinations
    THEN <<destinations[configuration_set_name]>> ELSE <<NoDestination>>

\* create_configuration_set on the SESBackend of another region; that backend
\* gets no other call, so each of its sets holds the default dict
other_create_configuration_set(configuration_set_name) ==
    LET stored == \E i \in DOMAIN other_config_sets :
                      unique_attribute(other_config_sets[i]) = configuration_set_name
    IN  /\ other_config_sets' = IF stored THEN other_config_sets
                                ELSE Append(other_config_sets,
                                            ConfigurationSet(configuration_set_name))
        /\ cs_last' = CSCall("other_create_configuration_set", configuration_set_name,
                             IF stored THEN AlreadyExists(configuration_set_name)
                             ELSE NoError)
        /\ UNCHANGED <<config_sets, default_reputation_options, default_sharers, evVars,
                       pg_phase, pg_params, pg_token, pg_items, pg_calls>>

\* the opaque token that stands for the position of item
EncodeToken(item) == <<"next:", unique_attribute(item)>>
DecodeToken(token) == token[2]

\* the index the page of a call starts at: 1 without a token, else the place of
\* the item the token names (past the end when no item has that name, which
\* cannot happen while the store does not change)
StartIndex(results, next_token) ==
    IF next_token = None THEN 1
    ELSE IF \E i \in DOMAIN results : unique_attribute(results[i]) = DecodeToken(next_token)
         THEN CHOOSE i \in DOMAIN results :
                  unique_attribute(results[i]) = DecodeToken(next_token)
         ELSE Len(results) + 1

\* as paginate, with a token that names the last item of the page sent
paginate_token_of_last(results, kwargs) ==
    LET limit == IF "max_items" \in DOMAIN kwargs THEN kwargs.max_items ELSE limit_default
        start == StartIndex(results, IF "next_token" \in DOMAIN kwargs
                                     THEN kwargs.next_token ELSE None)
        end   == IF start + limit - 1 < Len(results) THEN start + limit - 1 ELSE Len(results)
    IN  <<SubSeq(results, start, end),
          IF end < Len(results) THEN EncodeToken(results[end]) ELSE None>>

\* the paginate decorator: the page of at most limit items that starts where the
\* token says, and the token of the item after the page when items remain
paginate(results, kwargs) ==
    LET limit == IF "max_items" \in DOMAIN kwargs THEN kwargs.max_items ELSE limit_default
        start == StartIndex(results, IF "next_token" \in DOMAIN kwargs
                                     THEN kwargs.next_token ELSE None)
        end   == IF start + limit - 1 < Len(results) THEN start + limit - 1 ELSE Len(results)
    IN  <<SubSeq(results, start, end),
          IF end < Len(results) THEN EncodeToken(results[end + 1]) ELSE None>>

\* SESBackend.list_configuration_sets: the producer under @paginate
list_configuration_sets(kwargs) == paginate(config_sets, kwargs)

\* SESBackend._list_all_configuration_sets
_list_all_configuration_sets == config_sets

\* params.get(key) handed on as the keyword argument kw: a parameter that is
\* absent is the keyword argument None, which is the absent key here
Kwarg(params, key, kw) ==
    IF key \in DOMAIN params THEN SetItem(EmptyDict, kw, params[key]) ELSE EmptyDict

\* the keyword arguments of d and e together
Merge(d, e) == [k \in DOMAIN d \cup DOMAIN e |-> IF k \in DOMAIN e THEN e[k] ELSE d[k]]

\* as the response, without handing the NextToken on to the backend
ListConfigurationSetsResponseNoToken(params) ==
    LET result == list_configuration_sets(Kwarg(params, "MaxItems", "max_items"))
        configuration_sets == result[1]
    IN  [ConfigurationSets |-> [i \in DOMAIN configuration_sets |->
                                   [Name |-> configuration_sets[i].configuration_set_name]],
         NextToken |-> result[2]]

\* EmailResponse.list_configuration_sets
ListConfigurationSetsResponse(params) ==
    LET result == list_configuration_sets(Merge(Kwarg(params, "NextToken", "next_token"),
                                                Kwarg(params, "MaxItems", "max_items")))
        configuration_sets == result[1]
    IN  [ConfigurationSets |-> [i \in DOMAIN configuration_sets |->
                                   [Name |-> configuration_sets[i].configuration_set_name]],
         NextToken |-> result[2]]

\* the client takes in a response: it keeps the items and goes on while the
\* response has a token
ClientReads(resp) ==
    /\ pg_items' = pg_items \o resp.ConfigurationSets
    /\ pg_token' = resp.NextToken
    /\ pg_calls' = pg_calls + 1
    /\ pg_phase' = IF resp.NextToken # None THEN "paging" ELSE "done"

\* the client's first call: no token, MaxItems as params gives it
FirstListCall(params) ==
    LET resp == ListConfigurationSetsResponse(params)
    IN  /\ pg_phase # "paging"
        /\ pg_params' = params
        /\ pg_items' = resp.ConfigurationSets
        /\ pg_token' = resp.NextToken
        /\ pg_calls' = 1
        /\ pg_phase' = IF resp.NextToken # None THEN "paging" ELSE "done"
        /\ cs_last' = CSCall("list_configuration_sets", "", NoError)
        /\ UNCHANGED <<config_sets, repVars, evVars>>

\* the client's next call: the same parameters and the token of the last response
NextListCall ==
    /\ pg_phase = "paging"
    /\ ClientReads(ListConfigurationSetsResponse(SetItem(pg_params, "NextToken", pg_token)))
    /\ cs_last' = CSCall("list_configuration_sets", "", NoError)
    /\ UNCHANGED <<config_sets, pg_params, repVars, evVars>>

----------------------------------------------------------------------------
(* EC2 network ACLs.                                                       *)

\* the ids random_network_acl_id() draws from
AclIds == {"acl-1", "acl-2"}

\* the VPCs of the account; get_vpc raises InvalidVPCIdError for any other id
Vpcs == {"vpc-1"}
VpcIds == {"vpc-1", "vpc-none"}

\* the ids random_network_acl_subnet_association_id() draws from
AssocIds == {"aclassoc-1", "aclassoc-2"}

\* the subnets the associations are made for
SubnetIds == {"subnet-1"}

\* the entries the calls create and delete
EntryInputs ==
    { [rule_number |-> "200", protocol |-> "6", rule_action |-> "allow",
       egress |-> "false", cidr_block |-> "10.0.0.0/8"],
      [rule_number |-> "100", protocol |-> "-1", rule_action |-> "deny",
       egress |-> "true", cidr_block |-> "0.0.0.0/0"] }

ACLCall(op, id, err) == [op |-> op, id |-> id, err |-> err]

InitACL ==
    /\ network_acls = EmptyDict
    /\ acl_order = <<>>
    /\ acl_last = ACLCall("__init__", "", NoError)

\* NetworkAcl.__init__
NetworkAcl(network_acl_id, vpc_id, default) ==
    [id |-> network_acl_id, vpc_id |-> vpc_id, owner_id |-> ACCOUNT_ID,
     network_acl_entries |-> <<>>, associations |-> EmptyDict,
     default |-> IF default = TRUE THEN "true" ELSE "false"]

\* NetworkAclEntry.__init__; the ICMP and port fields are None in every call here
NetworkAclEntry(network_acl_id, rule_number, protocol, rule_action, egress, cidr_block) ==
    [network_acl_id |-> network_acl_id, rule_number |-> rule_number,
     protocol |-> protocol, rule_action |-> rule_action, egress |-> egress,
     cidr_block |-> cidr_block, icmp_code |-> None, icmp_type |-> None,
     port_range_from |-> None, port_range_to |-> None]

\* NetworkAclAssociation.__init__
NetworkAclAssociation(new_association_id, subnet_id, network_acl_id) ==
    [id |-> new_association_id, new_association_id |-> new_association_id,
     subnet_id |-> subnet_id, network_acl_id |-> network_acl_id]

\* the association ids the ACLs of acls hold
UsedAssocIds(acls) == UNION {DOMAIN acls[a].associations : a \in DOMAIN acls}

InvalidNetworkAclId(id) == Raised("InvalidNetworkAclIdError", id)

\* some entry of entries has this egress and rule number
HasEntry(entries, egress, rule_number) ==
    \E i \in DOMAIN entries :
        entries[i].egress = egress /\ entries[i].rule_number = rule_number

\* as CreateEntryIn, without the test for an entry of the same egress and rule
\* number
CreateEntryInUnchecked(acls, network_acl_id, rule_number, protocol, rule_action, egress, cidr_block) ==
    IF network_acl_id \notin DOMAIN acls
    THEN [err |-> InvalidNetworkAclId(network_acl_id), acls |-> acls]
    ELSE [err |-> NoError,
          acls |-> [acls EXCEPT ![network_acl_id].network_acl_entries =
                       Append(@, NetworkAclEntry(network_acl_id, rule_number, protocol,
                                                 rule_action, egress, cidr_block))]]

\* create_network_acl_entry on the store acls: the error it raises (NoError when
\* it returns) and the store it leaves
CreateEntryIn(acls, network_acl_id, rule_number, protocol, rule_action, egress, cidr_block) ==
    IF network_acl_id \notin DOMAIN acls
    THEN [err |-> InvalidNetworkAclId(network_acl_id), acls |-> acls]
    ELSE IF HasEntry(acls[network_acl_id].network_acl_entries, egress, rule_number)
         THEN [err |-> Raised("NetworkAclEntryAlreadyExistsError", rule_number),
               acls |-> acls]
         ELSE [err |-> NoError,
               acls |-> [acls EXCEPT ![network_acl_id].network_acl_entries =
                            Append(@, NetworkAclEntry(network_acl_id, rule_number, protocol,
                                                      rule_action, egress, cidr_block))]]

\* as default_acl_entries, without the deny rule of the ingress direction
default_acl_entries_three ==
    << [rule_number |-> "100", rule_action |-> "allow", egress |-> "true"],
       [rule_number |-> "32767", rule_action |-> "deny", egress |-> "true"],
       [rule_number |-> "100", rule_action |-> "allow", egress |-> "false"] >>

default_acl_entries ==
    << [rule_number |-> "100", rule_action |-> "allow", egress |-> "true"],
       [rule_number |-> "32767", rule_action |-> "deny", egress |-> "true"],
       [rule_number |-> "100", rule_action |-> "allow", egress |-> "false"],
       [rule_number |-> "32767", rule_action |-> "deny", egress |-> "false"] >>

\* add_default_entries: create_network_acl_entry for the first n default entries
RECURSIVE AddDefaults(_, _, _)
AddDefaults(acls, network_acl_id, n) ==
    IF n = 0 THEN acls
    ELSE LET entry == default_acl_entries[n]
         IN  CreateEntryIn(AddDefaults(acls, network_acl_id, n - 1), network_acl_id,
                           entry.rule_number, "-1", entry.rule_action, entry.egress,
                           "0.0.0.0/0").acls

add_default_entries(acls, network_acl_id) ==
    AddDefaults(acls, network_acl_id, Len(default_acl_entries))

\* tags is None in every call here
create_network_acl(vpc_id, default) ==
    \E network_acl_id \in AclIds \ DOMAIN network_acls :
        IF vpc_id \notin Vpcs
        THEN /\ acl_last' = ACLCall("create_network_acl", network_acl_id,
                                    Raised("InvalidVPCIdError", vpc_id))
             /\ UNCHANGED <<network_acls, acl_order>>
        ELSE LET stored == SetItem(network_acls, network_acl_id,
                                   NetworkAcl(network_acl_id, vpc_id, default))
             IN  /\ network_acls' = IF default THEN add_default_entries(stored, network_acl_id)
                                    ELSE stored
                 /\ acl_order' = Append(acl_order, network_acl_id)
                 /\ acl_last' = ACLCall("create_network_acl", network_acl_id, NoError)

\* get_network_acl called by a client: it reads the store and returns or raises
get_network_acl(network_acl_id) ==
    /\ acl_last' = ACLCall("get_network_acl", network_acl_id,
                           IF network_acl_id \in DOMAIN network_acls THEN NoError
                           ELSE InvalidNetworkAclId(network_acl_id))
    /\ UNCHANGED <<network_acls, acl_order>>

\* as delete_network_acl, without the error for an id that is not stored
delete_network_acl_silent(network_acl_id) ==
    /\ network_acls' = PopItem(network_acls, network_acl_id)
    /\ acl_order' = SelectSeq(acl_order, LAMBDA a : a # network_acl_id)
    /\ acl_last' = ACLCall("delete_network_acl", network_acl_id, NoError)

delete_network_acl(network_acl_id) ==
    IF network_acl_id \notin DOMAIN network_acls
    THEN /\ acl_last' = ACLCall("delete_network_acl", network_acl_id,
                                InvalidNetworkAclId(network_acl_id))
         /\ UNCHANGED <<network_acls, acl_order>>
    ELSE /\ network_acls' = PopItem(network_acls, network_acl_id)
         /\ acl_order' = SelectSeq(acl_order, LAMBDA a : a # network_acl_id)
         /\ acl_last' = ACLCall("delete_network_acl", network_acl_id, NoError)

create_network_acl_entry(network_acl_id, rule_number, protocol, rule_action, egress, cidr_block) ==
    LET r == CreateEntryIn(network_acls, network_acl_id, rule_number, protocol,
                           rule_action, egress, cidr_block)
    IN  /\ network_acls' = r.acls
        /\ acl_last' = ACLCall("create_network_acl_entry", network_acl_id, r.err)
        /\ UNCHANGED acl_order

\* delete_network_acl_entry on the store acls; next() without a default raises
\* StopIteration when no entry matches
DeleteEntryIn(acls, network_acl_id, rule_number, egress) ==
    IF network_acl_id \notin DOMAIN acls
    THEN [err |-> InvalidNetworkAclId(network_acl_id), acls |-> acls]
    ELSE LET entries == acls[network_acl_id].network_acl_entries
         IN  IF ~HasEntry(entries, egress, rule_number)
             THEN [err |-> Raised("StopIteration", ""), acls |-> acls]
             ELSE [err |-> NoError,
                   acls |-> [acls EXCEPT ![network_acl_id].network_acl_entries =
                                SelectSeq(entries, LAMBDA e :
                                    ~(e.egress = egress /\ e.rule_number = rule_number))]]

delete_network_acl_entry(network_acl_id, rule_number, egress) ==
    LET r == DeleteEntryIn(network_acls, network_acl_id, rule_number, egress)
    IN  /\ network_acls' = r.acls
        /\ acl_last' = ACLCall("delete_network_acl_entry", network_acl_id, r.err)
        /\ UNCHANGED acl_order

replace_network_acl_entry(network_acl_id, rule_number, protocol, rule_action, egress, cidr_block) ==
    LET d == DeleteEntryIn(network_acls, network_acl_id, rule_number, egress)
        c == CreateEntryIn(d.acls, network_acl_id, rule_number, protocol, rule_action,
                           egress, cidr_block)
    IN  /\ network_acls' = IF d.err = NoError THEN c.acls ELSE network_acls
        /\ acl_last' = ACLCall("replace_network_acl_entry", network_acl_id,
                               IF d.err = NoError THEN c.err ELSE d.err)
        /\ UNCHANGED acl_order

\* the new association goes to the first ACL of the dict that is of the VPC;
\* acl.default is the text "true" or "false", and both count as true in the
\* condition; next() without a default raises StopIteration when no ACL matches
associate_default_network_acl_with_subnet(subnet_id, vpc_id) ==
    \E association_id \in AssocIds \ UsedAssocIds(network_acls) :
        LET matching == SelectSeq(acl_order, LAMBDA a :
                            network_acls[a].default # "" /\ network_acls[a].vpc_id = vpc_id)
        IN  /\ IF matching = <<>>
               THEN /\ acl_last' = ACLCall("associate_default_network_acl_with_subnet", "",
                                           Raised("StopIteration", ""))
                    /\ UNCHANGED network_acls
               ELSE /\ network_acls' =
                           [network_acls EXCEPT ![matching[1]].associations =
                               SetItem(@, association_id,
                                       NetworkAclAssociation(association_id, subnet_id,
                                                             matching[1]))]
                    /\ acl_last' = ACLCall("associate_default_network_acl_with_subnet",
                                           matching[1], NoError)
            /\ UNCHANGED acl_order

\* the old association is deleted from the ACL that holds it before the target
\* ACL is looked up; next() without a default raises StopIteration when no ACL
\* holds the association id
replace_network_acl_association(association_id, network_acl_id) ==
    LET holders == SelectSeq(acl_order, LAMBDA a :
                       association_id \in DOMAIN network_acls[a].associations)
    IN  IF holders = <<>>
        THEN /\ acl_last' = ACLCall("replace_network_acl_association", network_acl_id,
                                    Raised("StopIteration", ""))
             /\ UNCHANGED <<network_acls, acl_order>>
        ELSE LET default_acl == holders[1]
                 subnet_id   == network_acls[default_acl].associations[association_id].subnet_id
                 removed     == [network_acls EXCEPT ![default_acl].associations =
                                    PopItem(@, association_id)]
             IN  \E new_assoc_id \in AssocIds \ UsedAssocIds(network_acls) :
                     /\ IF network_acl_id \notin DOMAIN removed
                        THEN /\ network_acls' = removed
                             /\ acl_last' = ACLCall("replace_network_acl_association",
                                                    network_acl_id,
                                                    InvalidNetworkAclId(network_acl_id))
                        ELSE /\ network_acls' =
                                    [removed EXCEPT ![network_acl_id].associations =
                                        SetItem(@, new_assoc_id,
                                                NetworkAclAssociation(new_assoc_id, subnet_id,
                                                                      network_acl_id))]
                             /\ acl_last' = ACLCall("replace_network_acl_association",
                                                    network_acl_id, NoError)
                     /\ UNCHANGED acl_order

----------------------------------------------------------------------------
(* Resource Groups Tagging API: get_resources over the tagged resources of *)
(* the other services, as the tests of the API use it.                     *)

\* the resources of the scenario: an EC2 instance and two load balancers
ResourceKinds ==
    [r \in {"i-1", "lb-1", "lb-2"} |->
        IF r = "i-1" THEN [service |-> "ec2", type |-> "instance"]
        ELSE [service |-> "elasticloadbalancing", type |-> "loadbalancer"]]

\* the tags a resource is created with: none, two tags, one tag
CreateTags ==
    { EmptyDict,
      [key_name |-> "a_value", key_2 |-> "val2"],
      [key_name |-> "b_value"] }

\* the requests of get_resources
Requests ==
    { [TagFilters |-> <<>>, ResourceTypeFilters |-> <<>>],
      [TagFilters |-> <<>>, ResourceTypeFilters |-> <<"elasticloadbalancing:loadbalancer">>],
      [TagFilters |-> <<[Key |-> "key_name"]>>,
       ResourceTypeFilters |-> <<"elasticloadbalancing:loadbalancer">>],
      [TagFilters |-> <<[Key |-> "key_name", Values |-> <<"a_value", "b_value">>],
                        [Key |-> "key_2", Values |-> <<"val2">>]>>,
       ResourceTypeFilters |-> <<>>],
      [TagFilters |-> <<[Key |-> "key_name", Values |-> <<"b_value">>]>>,
       ResourceTypeFilters |-> <<"ec2">>] }

InitTag ==
    /\ tagged = EmptyDict
    /\ rg_last = [op |-> "__init__", request |-> EmptyDict, result |-> {}]

\* run_instances, create_load_balancer: the resource is stored with its tags
create_resource(id, tags) ==
    /\ id \notin DOMAIN tagged
    /\ tagged' = SetItem(tagged, id, [service |-> ResourceKinds[id].service,
                                      type |-> ResourceKinds[id].type,
                                      tags |-> tags])
    /\ rg_last' = [op |-> "create_resource", request |-> EmptyDict, result |-> {}]

\* one TagFilter on the tags of a resource: some tag has the key and, when the
\* filter gives Values, one of the values
tag_filter_one(f, tags) ==
    /\ f.Key \in DOMAIN tags
    /\ \/ "Values" \notin DOMAIN f
       \/ f.Values = <<>>
       \/ \E i \in DOMAIN f.Values : f.Values[i] = tags[f.Key]

\* all TagFilters of the request hold of the tags; TRUE without TagFilters
tag_filter(tag_filters, tags) ==
    \A i \in DOMAIN tag_filters : tag_filter_one(tag_filters[i], tags)

\* the resource is of one of the ResourceTypeFilters: "service" or
\* "service:type"; TRUE without ResourceTypeFilters
type_filter(resource_type_filters, service, type) ==
    \/ resource_type_filters = <<>>
    \/ \E i \in DOMAIN resource_type_filters :
           \/ resource_type_filters[i] = <<service>>
           \/ resource_type_filters[i] = <<service, type>>

\* "service:type".split(":")
SplitType(text) ==
    IF text = "elasticloadbalancing:loadbalancer" THEN <<"elasticloadbalancing", "loadbalancer">>
    ELSE IF text = "ec2:instance" THEN <<"ec2", "instance">>
    ELSE <<text>>

\* the services whose resources are left out when they have no tags: the tests
\* get the EC2 resources with tags only, and both load balancers, of which
\* one has no tags
skips_untagged(service) == service # "elasticloadbalancing"

\* the ids of the resources get_resources returns
get_resources_result(request) ==
    { id \in DOMAIN tagged :
        LET r == tagged[id]
        IN  /\ type_filter([i \in DOMAIN request.ResourceTypeFilters |->
                               SplitType(request.ResourceTypeFilters[i])],
                           r.service, r.type)
            /\ ~(skips_untagged(r.service) /\ r.tags = EmptyDict)
            /\ tag_filter(request.TagFilters, r.tags) }

get_resources(request) ==
    /\ rg_last' = [op |-> "get_resources", request |-> request,
                   result |-> get_resources_result(request)]
    /\ UNCHANGED tagged

\* the lists of ids describe_network_acls is called with
DescribeIds ==
    { <<>>, <<"acl-1">>, <<"acl-1", "acl-1">>, <<"acl-1", "acl-2">>, <<"acl-2", "acl-none">>,
      <<"acl-none", "acl-1", "acl-other">> }

\* the elements of a list
ElementsOf(list) == { list[i] : i \in DOMAIN list }

\* a call of describe_network_acls: the ids it was given, the exception it
\* raised and the ids of the ACLs it returned
DescribeCall(network_acl_ids, err, result) ==
    [op |-> "describe_network_acls", id |-> "", err |-> err, ids |-> network_acl_ids,
     result |-> result]

\* filters is None, which generic_filter answers with the list it is given.
\* With ids, the result is the stored ACLs whose id is in the list, in the
\* order of the dict; when their number is not the length of the list, the
\* first element of the list of the ids that are not stored goes into
\* InvalidRouteTableIdError: any of them, as the list is made from a set, and
\* IndexError when all the ids are stored
describe_network_acls(network_acl_ids) ==
    LET found == IF network_acl_ids = <<>> THEN acl_order
                 ELSE SelectSeq(acl_order, LAMBDA a : a \in ElementsOf(network_acl_ids))
        missing == ElementsOf(network_acl_ids) \ ElementsOf(found)
    IN  /\ IF network_acl_ids = <<>> \/ Len(found) = Len(network_acl_ids)
           THEN acl_last' = DescribeCall(network_acl_ids, NoError, found)
           ELSE IF missing = {}
           THEN acl_last' = DescribeCall(network_acl_ids,
                                         Raised("IndexError", "list index out of range"),
                                         <<>>)
           ELSE \E invalid_id \in missing :
                    acl_last' = DescribeCall(network_acl_ids,
                                             Raised("InvalidRouteTableIdError", invalid_id),
                                             <<>>)
        /\ UNCHANGED <<network_acls, acl_order>>

----------------------------------------------------------------------------
(* SES receipt rule sets.                                                  *)

RuleSetNames == {"s1", "s2"}

\* the rules the calls give: one name enabled or not, and another name
ReceiptRules ==
    { [name |-> "r1", enabled |-> TRUE], [name |-> "r1", enabled |-> FALSE],
      [name |-> "r2", enabled |-> TRUE] }

RRCall(op, rule_set_name, rule, err) ==
    [op |-> op, rule_set_name |-> rule_set_name, rule |-> rule, err |-> err]

InitRR ==
    /\ receipt_rule_set = EmptyDict
    /\ rr_last = RRCall("__init__", "", EmptyDict, NoError)

\* raises AlreadyExists for a stored name
create_receipt_rule_set(rule_set_name) ==
    IF rule_set_name \in DOMAIN receipt_rule_set
    THEN /\ rr_last' = RRCall("create_receipt_rule_set", rule_set_name, EmptyDict,
                              Raised("AlreadyExists", rule_set_name))
         /\ UNCHANGED receipt_rule_set
    ELSE /\ receipt_rule_set' = SetItem(receipt_rule_set, rule_set_name, <<>>)
         /\ rr_last' = RRCall("create_receipt_rule_set", rule_set_name, EmptyDict, NoError)

\* rule in rule_set: some stored rule equals rule in every field
RuleIn(rule, rule_set) == \E i \in DOMAIN rule_set : rule_set[i] = rule

\* raises RuleSetDoesNotExist, or AlreadyExists when the set holds an equal
\* rule; else appends the rule
create_receipt_rule(rule_set_name, rule) ==
    IF rule_set_name \notin DOMAIN receipt_rule_set
    THEN /\ rr_last' = RRCall("create_receipt_rule", rule_set_name, rule,
                              Raised("RuleSetDoesNotExist", rule_set_name))
         /\ UNCHANGED receipt_rule_set
    ELSE IF RuleIn(rule, receipt_rule_set[rule_set_name])
    THEN /\ rr_last' = RRCall("create_receipt_rule", rule_set_name, rule,
                              Raised("AlreadyExists", rule.name))
         /\ UNCHANGED receipt_rule_set
    ELSE /\ receipt_rule_set' = SetItem(receipt_rule_set, rule_set_name,
                                        Append(receipt_rule_set[rule_set_name], rule))
         /\ rr_last' = RRCall("create_receipt_rule", rule_set_name, rule, NoError)

\* raises RuleSetDoesNotExist or RuleDoesNotExist; else puts the rule in the
\* place of the first stored rule of its name
update_receipt_rule(rule_set_name, rule) ==
    IF rule_set_name \notin DOMAIN receipt_rule_set
    THEN /\ rr_last' = RRCall("update_receipt_rule", rule_set_name, rule,
                              Raised("RuleSetDoesNotExist", rule_set_name))
         /\ UNCHANGED receipt_rule_set
    ELSE LET rule_set == receipt_rule_set[rule_set_name]
             named == { i \in DOMAIN rule_set : rule_set[i].name = rule.name }
         IN  IF named = {}
             THEN /\ rr_last' = RRCall("update_receipt_rule", rule_set_name, rule,
                                       Raised("RuleDoesNotExist", rule.name))
                  /\ UNCHANGED receipt_rule_set
             ELSE LET first == CHOOSE i \in named : \A j \in named : i <= j
                  IN  /\ receipt_rule_set' =
                             SetItem(receipt_rule_set, rule_set_name,
                                     [rule_set EXCEPT ![first] = rule])
                      /\ rr_last' = RRCall("update_receipt_rule", rule_set_name, rule, NoError)

----------------------------------------------------------------------------
(* S3 bucket lifecycle configuration, as its tests use it                  *)
(* (tests/test_s3/test_s3_lifecycle.py).                                   *)

BucketNames == {"bucket", "foobar"}

\* a bucket without a lifecycle configuration
NoRules == <<>>

\* the rules the tests put
WholeBucketRule == [ID |-> "wholebucket", Filter |-> [Prefix |-> ""], Status |-> "Enabled"]
TagRule == [ID |-> "Tags", Filter |-> [Tag |-> "somekey"], Status |-> "Enabled"]
PrefixRule == [ID |-> "myid", Prefix |-> "some/path", Status |-> "Enabled"]
\* neither Filter nor Prefix
BareRule == [ID |-> "wholebucket", Status |-> "Enabled"]
\* both Filter and Prefix
FilterAndPrefixRule ==
    [ID |-> "wholebucket", Filter |-> [Tag |-> "mytag"], Prefix |-> "some/path",
     Status |-> "Enabled"]
\* a Filter with a Prefix and a Tag
TwoFilterRule ==
    [ID |-> "wholebucket", Filter |-> [Prefix |-> "some/prefix", Tag |-> "mytag"],
     Status |-> "Enabled"]

LifecycleConfigurations ==
    { <<WholeBucketRule>>, <<WholeBucketRule, TagRule>>, <<TagRule, WholeBucketRule>>,
      <<PrefixRule>>, <<BareRule>>, <<WholeBucketRule, FilterAndPrefixRule>>,
      <<TwoFilterRule>> }

\* a value a stored rule does not have
Absent == "<absent>"

InitS3 ==
    /\ buckets = EmptyDict
    /\ s3_last = [op |-> "__init__", bucket |-> "", rules |-> NoRules, err |-> NoError,
                  result |-> NoRules]

S3Call(op, bucket, rules, err, result) ==
    [op |-> op, bucket |-> bucket, rules |-> rules, err |-> err, result |-> result]

create_bucket(bucket) ==
    /\ bucket \notin DOMAIN buckets
    /\ buckets' = SetItem(buckets, bucket, NoRules)
    /\ s3_last' = S3Call("create_bucket", bucket, NoRules, NoError, NoRules)

\* the rule is rejected: it has neither a Filter nor a Prefix, or both, or a
\* Filter with more than one of Prefix, Tag and And
malformed_rule(rule) ==
    \/ "Filter" \notin DOMAIN rule /\ "Prefix" \notin DOMAIN rule
    \/ "Filter" \in DOMAIN rule /\ "Prefix" \in DOMAIN rule
    \/ "Filter" \in DOMAIN rule /\ Cardinality(DOMAIN rule.Filter) > 1

\* the rule as the bucket stores it: every field has a value, Absent when the
\* request does not give it
parse_rule(rule) ==
    [id |-> rule.ID,
     status |-> rule.Status,
     prefix |-> IF "Prefix" \in DOMAIN rule THEN rule.Prefix ELSE Absent,
     has_filter |-> "Filter" \in DOMAIN rule,
     filter_prefix |-> IF "Filter" \in DOMAIN rule /\ "Prefix" \in DOMAIN rule.Filter
                       THEN rule.Filter.Prefix ELSE Absent,
     filter_tag |-> IF "Filter" \in DOMAIN rule /\ "Tag" \in DOMAIN rule.Filter
                    THEN rule.Filter.Tag ELSE Absent]

\* the fields of the Filter element of a stored rule
render_filter(stored) ==
    LET keys == (IF stored.filter_prefix # Absent THEN {"Prefix"} ELSE {})
                \cup (IF stored.filter_tag # Absent THEN {"Tag"} ELSE {})
    IN  [k \in keys |-> IF k = "Prefix" THEN stored.filter_prefix ELSE stored.filter_tag]

\* the stored rule as the response gives it: absent fields are left out
render_rule(stored) ==
    LET keys == {"ID", "Status"}
                \cup (IF stored.prefix # Absent THEN {"Prefix"} ELSE {})
                \cup (IF stored.has_filter THEN {"Filter"} ELSE {})
    IN  [k \in keys |->
            CASE k = "ID" -> stored.id
              [] k = "Status" -> stored.status
              [] k = "Prefix" -> stored.prefix
              [] k = "Filter" -> render_filter(stored)]

\* a put that adds the rules of the request to the rules the bucket holds
put_bucket_lifecycle_configuration_append(bucket, rules) ==
    /\ bucket \in DOMAIN buckets
    /\ IF \E i \in DOMAIN rules : malformed_rule(rules[i])
       THEN /\ s3_last' = S3Call("put_bucket_lifecycle_configuration", bucket, rules,
                                 Raised("MalformedXML", ""), NoRules)
            /\ UNCHANGED buckets
       ELSE /\ buckets' = SetItem(buckets, bucket,
                                  buckets[bucket] \o [i \in DOMAIN rules |-> parse_rule(rules[i])])
            /\ s3_last' = S3Call("put_bucket_lifecycle_configuration", bucket, rules,
                                 NoError, NoRules)

\* put replaces the rules of the bucket by the rules of the request, none
\* of which is malformed
put_bucket_lifecycle_configuration(bucket, rules) ==
    /\ bucket \in DOMAIN buckets
    /\ IF \E i \in DOMAIN rules : malformed_rule(rules[i])
       THEN /\ s3_last' = S3Call("put_bucket_lifecycle_configuration", bucket, rules,
                                 Raised("MalformedXML", ""), NoRules)
            /\ UNCHANGED buckets
       ELSE /\ buckets' = SetItem(buckets, bucket,
                                  [i \in DOMAIN rules |-> parse_rule(rules[i])])
            /\ s3_last' = S3Call("put_bucket_lifecycle_configuration", bucket, rules,
                                 NoError, NoRules)

\* what get answers for the rules a bucket holds: the exception and the Rules
get_lifecycle_response(stored_rules) ==
    IF stored_rules = NoRules
    THEN [err |-> Raised("NoSuchLifecycleConfiguration",
                         "The lifecycle configuration does not exist"),
          Rules |-> NoRules]
    ELSE [err |-> NoError,
          Rules |-> [i \in DOMAIN stored_rules |-> render_rule(stored_rules[i])]]

get_bucket_lifecycle_configuration(bucket) ==
    /\ bucket \in DOMAIN buckets
    /\ LET r == get_lifecycle_response(buckets[bucket])
       IN  s3_last' = S3Call("get_bucket_lifecycle_configuration", bucket, NoRules,
                             r.err, r.Rules)
    /\ UNCHANGED buckets

delete_bucket_lifecycle(bucket) ==
    /\ bucket \in DOMAIN buckets
    /\ buckets' = SetItem(buckets, bucket, NoRules)
    /\ s3_last' = S3Call("delete_bucket_lifecycle", bucket, NoRules, NoError, NoRules)

----------------------------------------------------------------------------
(* Specifications: one per backend.                                        *)

Init == InitCP /\ InitSES /\ InitPage /\ InitACL /\ InitTag /\ InitS3 /\ InitRR

NextCP ==
    \/ \E p \in Payloads : \E t \in TagListsOf(p.name) :
           create_pipeline(p, t) /\ UNCHANGED notCP
    \/ \E p \in Payloads : update_pipeline(p) /\ UNCHANGED notCP
    \/ \E n \in Names : delete_pipeline(n) /\ UNCHANGED notCP
    \/ \E n \in Names : get_pipeline(n) /\ UNCHANGED notCP
    \/ list_pipelines /\ UNCHANGED notCP
    \/ \E n \in Names : list_tags_for_resource(ArnOf(n)) /\ UNCHANGED notCP
    \/ \E n \in Names : \E t \in TagListsOf(n) :
           tag_resource(ArnOf(n), t) /\ UNCHANGED notCP
    \/ \E n \in Names, k \in TagKeyLists :
           untag_resource(ArnOf(n), k) /\ UNCHANGED notCP
    \/ reset /\ UNCHANGED notCP

SpecCP == Init /\ [][NextCP]_vars

NextSES ==
    \/ verify_email_identity(NAMED) /\ UNCHANGED notSES
    \/ verify_email_address(NAMED) /\ UNCHANGED notSES
    \/ verify_domain(<<"D2.COM">>) /\ UNCHANGED notSES
    \/ \E t \in TemplateInfos : add_template(t) /\ UNCHANGED notSES
    \/ set_identity_notification_topic(<<"d1.com">>, "Delivery", "arn:aws:sns:topic")
           /\ UNCHANGED notSES
    \/ \E s \in Sources, d \in Destinations :
           send_email(s, "subject", "body", d) /\ UNCHANGED notSES
    \/ \E s \in Sources, t \in TemplateArgs, d \in Destinations :
           send_templated_email(s, t, <<"{}">>, d) /\ UNCHANGED notSES
    \/ \E s \in Sources, t \in TemplateArgs, d \in BulkDestinations :
           send_bulk_templated_email(s, t, <<"{}">>, d) /\ UNCHANGED notSES
    \/ \E s \in RawSources, d \in RawDestinations, m \in RawMessages :
           send_raw_email(s, d, m) /\ UNCHANGED notSES

SpecSES == Init /\ [][NextSES]_vars

\* the sends with feedback: identities, notification topics and send_email
NextFeedback ==
    \/ verify_email_identity(NAMED) /\ UNCHANGED notSES
    \/ \E i \in TopicIdentities, t \in {"Delivery", "Complaint"} :
           set_identity_notification_topic(i, t, TopicOf(i, t)) /\ UNCHANGED notSES
    \/ \E s \in {NAMED, PLAIN}, d \in FeedbackDestinations :
           send_email(s, "subject", "body", d) /\ UNCHANGED notSES

SpecFeedback == Init /\ [][NextFeedback]_vars

NextTag ==
    \/ \E id \in DOMAIN ResourceKinds, t \in CreateTags :
           create_resource(id, t) /\ UNCHANGED notTag
    \/ \E r \in Requests : get_resources(r) /\ UNCHANGED notTag

SpecTag == Init /\ [][NextTag]_vars

NextS3 ==
    \/ \E b \in BucketNames : create_bucket(b) /\ UNCHANGED notS3
    \/ \E b \in BucketNames, r \in LifecycleConfigurations :
           put_bucket_lifecycle_configuration(b, r) /\ UNCHANGED notS3
    \/ \E b \in BucketNames : get_bucket_lifecycle_configuration(b) /\ UNCHANGED notS3
    \/ \E b \in BucketNames : delete_bucket_lifecycle(b) /\ UNCHANGED notS3

SpecS3 == Init /\ [][NextS3]_vars

NextReputation ==
    \/ \E n \in {"a", "b"} : create_configuration_set(n) /\ UNCHANGED notPage
    \/ \E r \in {V2Options.reputation_options, NoOptions} :
           create_configuration_set_v2("c", V2Options.tracking_options,
                                       V2Options.delivery_options, r,
                                       V2Options.sending_options, V2Options.tags,
                                       V2Options.suppression_options,
                                       V2Options.vdm_options) /\ UNCHANGED notPage
    \/ \E n \in ReputationNames : delete_configuration_set(n) /\ UNCHANGED notPage
    \/ \E n \in ReputationNames, e \in BOOLEAN :
           update_configuration_set_reputation_metrics_enabled(n, e) /\ UNCHANGED notPage
    \/ \E n \in OtherNames : other_create_configuration_set(n) /\ UNCHANGED notPage

SpecReputation == Init /\ [][NextReputation]_vars

NextRR ==
    \/ \E n \in RuleSetNames : create_receipt_rule_set(n) /\ UNCHANGED notRR
    \/ \E n \in RuleSetNames, r \in ReceiptRules :
           create_receipt_rule(n, r) /\ UNCHANGED notRR
    \/ \E n \in RuleSetNames, r \in ReceiptRules :
           update_receipt_rule(n, r) /\ UNCHANGED notRR

SpecRR == Init /\ [][NextRR]_vars

NextEvents ==
    \/ \E n \in EventSetNames : create_configuration_set(n) /\ UNCHANGED notPage
    \/ \E n \in EventSetNames : delete_configuration_set(n) /\ UNCHANGED notPage
    \/ \E n \in EventSetNames, d \in EventDestinations :
           create_configuration_set_event_destination(n, d) /\ UNCHANGED notPage

SpecEvents == Init /\ [][NextEvents]_vars

NextDescribe ==
    \/ \E v \in VpcIds, default \in BOOLEAN :
           create_network_acl(v, default) /\ UNCHANGED notACL
    \/ \E id \in AclIds : delete_network_acl(id) /\ UNCHANGED notACL
    \/ \E ids \in DescribeIds : describe_network_acls(ids) /\ UNCHANGED notACL

SpecDescribe == Init /\ [][NextDescribe]_vars

NextIdentity ==
    \/ \E a \in {PLAIN, NAMED} : verify_email_identity(a) /\ UNCHANGED notSES
    \/ verify_email_address(PLAIN) /\ UNCHANGED notSES
    \/ \E d \in {<<"D2.COM">>, <<"d1.com">>} : verify_domain(d) /\ UNCHANGED notSES
    \/ \E i \in DeletedIdentities : delete_identity(i) /\ UNCHANGED notSES
    \/ send_email(PLAIN, "subject", "body", [ToAddresses |-> <<RCPT>>])
           /\ UNCHANGED notSES

SpecIdentity == Init /\ [][NextIdentity]_vars

NextPage ==
    \/ \E n \in SetNames : create_configuration_set(n) /\ UNCHANGED notPage
    \/ \E n \in V2Names :
           create_configuration_set_v2(n, V2Options.tracking_options,
                                       V2Options.delivery_options,
                                       V2Options.reputation_options,
                                       V2Options.sending_options, V2Options.tags,
                                       V2Options.suppression_options,
                                       V2Options.vdm_options) /\ UNCHANGED notPage
    \/ \E n \in SetNames : describe_configuration_set(n) /\ UNCHANGED notPage
    \/ \E n \in SetNames : delete_configuration_set(n) /\ UNCHANGED notPage
    \/ \E params \in {EmptyDict} \cup {[MaxItems |-> m] : m \in 1..MaxPageSize} :
           FirstListCall(params) /\ UNCHANGED notPage
    \/ NextListCall /\ UNCHANGED notPage

SpecPage == Init /\ [][NextPage]_vars

NextACL ==
    \/ \E v \in VpcIds, default \in BOOLEAN :
           create_network_acl(v, default) /\ UNCHANGED notACL
    \/ \E id \in AclIds : delete_network_acl(id) /\ UNCHANGED notACL
    \/ \E id \in AclIds : get_network_acl(id) /\ UNCHANGED notACL
    \/ \E id \in AclIds, e \in EntryInputs :
           create_network_acl_entry(id, e.rule_number, e.protocol, e.rule_action,
                                    e.egress, e.cidr_block) /\ UNCHANGED notACL
    \/ \E id \in AclIds, e \in EntryInputs :
           delete_network_acl_entry(id, e.rule_number, e.egress) /\ UNCHANGED notACL
    \/ \E id \in AclIds :
           replace_network_acl_entry(id, "200", "17", "deny", "false", "10.0.0.0/8")
           /\ UNCHANGED notACL
    \/ \E sn \in SubnetIds, v \in VpcIds :
           associate_default_network_acl_with_subnet(sn, v) /\ UNCHANGED notACL
    \/ \E a \in AssocIds, id \in AclIds :
           replace_network_acl_association(a, id) /\ UNCHANGED notACL

SpecACL == Init /\ [][NextACL]_vars

----------------------------------------------------------------------------
(* CodePipeline: properties.                                               *)

VersionOf(store, n) == store[n].pipeline.version

CPFailed(call) == call.err # NoError

\* C1: the stored version is 1 right after every successful create_pipeline,
\* every successful update_pipeline raises the stored version of its pipeline
\* by exactly 1 whatever version the payload carries, and a call that raises
\* leaves the version of every stored pipeline as it was.
C1_VersionCounter ==
    [][ /\ (cp_last'.op = "create_pipeline" /\ ~CPFailed(cp_last'))
            => /\ cp_last'.name \in DOMAIN pipelines'
               /\ VersionOf(pipelines', cp_last'.name) = 1
        /\ (cp_last'.op = "update_pipeline" /\ ~CPFailed(cp_last'))
            => /\ cp_last'.name \in DOMAIN pipelines
               /\ VersionOf(pipelines', cp_last'.name)
                      = VersionOf(pipelines, cp_last'.name) + 1
        /\ CPFailed(cp_last')
            => \A n \in DOMAIN pipelines :
                   /\ n \in DOMAIN pipelines'
                   /\ VersionOf(pipelines', n) = VersionOf(pipelines, n)
      ]_vars

\* C1 witness: a pipeline reached version 3 by its second successful update
C1_Witness ==
    /\ cp_last.op = "update_pipeline"
    /\ ~CPFailed(cp_last)
    /\ VersionOf(pipelines, cp_last.name) = 3

\* C2: create_pipeline with a name that is in the store raises the 'already
\* exists' error and leaves the whole store (definition, version, tags and
\* timestamps of every pipeline) as it was.
C2_CreateCollision ==
    [][ (cp_last'.op = "create_pipeline" /\ cp_last'.name \in DOMAIN pipelines)
        => /\ cp_last'.err = Raised("InvalidStructureException", "already exists")
           /\ pipelines' = pipelines
           /\ clock' = clock
      ]_vars

\* C2 witness: a create was refused for the name of a stored, tagged pipeline
\* that had been updated before
C2_Witness ==
    /\ cp_last.op = "create_pipeline"
    /\ cp_last.err.msg = "already exists"
    /\ cp_last.name \in DOMAIN pipelines
    /\ VersionOf(pipelines, cp_last.name) = 2
    /\ DOMAIN pipelines[cp_last.name].tags # {}

TagCount(entity) == Cardinality(DOMAIN entity.tags)

\* the number of tags the entity would carry after the tags of the call are merged
MergedCount(entity, tags) ==
    Cardinality((DOMAIN entity.tags) \cup {tags[i].key : i \in DOMAIN tags})

HasSystemKey(tags) == \E i \in DOMAIN tags : StartsWithAws(tags[i].key)

TagCeiling == \A n \in DOMAIN pipelines : TagCount(pipelines[n]) <= TagLimit

\* C3 as stated: no pipeline ever carries more than 50 tags, and a tag_resource
\* call that would take a pipeline over 50 tags raises TooManyTags and leaves
\* the tags unchanged.
C3_TagCeilingAsStated ==
    [][ /\ TagCeiling'
        /\ \A n \in Names : \A t \in TagListsOf(n) :
               (/\ cp_last'.op = "tag_resource"
                /\ n \in DOMAIN pipelines
                /\ MergedCount(pipelines[n], t) > TagLimit
                /\ tag_resource(ArnOf(n), t))
               => /\ cp_last'.err.exc = "TooManyTagsException"
                  /\ pipelines' = pipelines
      ]_vars

\* C3 amended: no pipeline ever carries more than 50 tags, and a tag_resource
\* call that would take a pipeline over 50 tags leaves the tags unchanged and
\* raises TooManyTags, or InvalidTags when the call carries a key with the
\* prefix 'aws:'.
C3_TagCeiling ==
    [][ /\ TagCeiling'
        /\ \A n \in Names : \A t \in TagListsOf(n) :
               (/\ cp_last'.op = "tag_resource"
                /\ n \in DOMAIN pipelines
                /\ MergedCount(pipelines[n], t) > TagLimit
                /\ tag_resource(ArnOf(n), t))
               => /\ cp_last'.err.exc =
                         (IF HasSystemKey(t) THEN "InvalidTagsException"
                                             ELSE "TooManyTagsException")
                  /\ pipelines' = pipelines
      ]_vars

\* C3 witness: a tag_resource call was refused with TooManyTags on a pipeline
\* that holds exactly 50 tags
C3_Witness ==
    /\ cp_last.op = "tag_resource"
    /\ cp_last.err.exc = "TooManyTagsException"
    /\ cp_last.name \in DOMAIN pipelines
    /\ TagCount(pipelines[cp_last.name]) = TagLimit

\* C4 as stated: a create_pipeline call that raises leaves the stored pipelines
\* and their tags as they were.
C4_FailedCreateStoresNothing ==
    [][ (cp_last'.op = "create_pipeline" /\ CPFailed(cp_last'))
        => /\ DOMAIN pipelines' = DOMAIN pipelines
           /\ \A n \in DOMAIN pipelines : pipelines'[n].tags = pipelines[n].tags
      ]_vars

----------------------------------------------------------------------------
(* SES: properties.                                                        *)

SendOps == {"send_email", "send_templated_email", "send_bulk_templated_email",
            "send_raw_email"}

\* the check an error of a send belongs to
CheckOfError(err) ==
    IF err.msg \in {"Too many recipients.", "Too many destinations."} THEN "count"
    ELSE IF err.exc = "MessageRejectedError" THEN "source"
         ELSE IF err.exc = "InvalidParameterValue" THEN "syntax"
              ELSE IF err.exc = "TemplateDoesNotExist" THEN "template"
                   ELSE "none"

\* the earliest check of a set, in the order count, source, syntax, template
Earliest(violated) ==
    IF "count" \in violated THEN "count"
    ELSE IF "source" \in violated THEN "source"
         ELSE IF "syntax" \in violated THEN "syntax"
              ELSE "template"

\* the checks a request violates, from what each check is about
ViolatedChecks(too_many, source, addrs, has_template, template) ==
    (IF too_many THEN {"count"} ELSE {})
    \cup (IF source = None \/ ~_is_verified_address(source) THEN {"source"} ELSE {})
    \cup (IF SomeInvalid(addrs \cup ({source} \ {None})) THEN {"syntax"} ELSE {})
    \cup (IF has_template /\ template[1] \notin DOMAIN templates THEN {"template"} ELSE {})

\* all recipient addresses of a bulk destination list
BulkAddresses(destinations) ==
    UNION { DestinationAddresses(destinations[i].Destination) : i \in DOMAIN destinations }

\* the source send_raw_email sends from: the parameter, else the from header
RawSender(source, message) ==
    IF source # None THEN source
    ELSE IF "from" \in DOMAIN message THEN parseaddr(message["from"]) ELSE None

\* the error of the step is the one of the earliest of several violated checks
ReportsEarliest(violated) ==
    Cardinality(violated) > 1 => CheckOfError(ses_last'.err) = Earliest(violated)

\* C5: in each of the four send operations, a request that violates more than
\* one check is answered with the error of the earliest violated check in the
\* order recipient count, source verification, address syntax, template
\* existence.
C5_EarliestCheckWins ==
    [][ /\ \A src \in Sources, d \in Destinations :
             (ses_last'.op = "send_email" /\ send_email(src, "subject", "body", d))
             => ReportsEarliest(ViolatedChecks(RecipientCount(d) > RECIPIENT_LIMIT, src,
                                               DestinationAddresses(d), FALSE, <<>>))
        /\ \A src \in Sources, t \in TemplateArgs, d \in Destinations :
             (ses_last'.op = "send_templated_email"
              /\ send_templated_email(src, t, <<"{}">>, d))
             => ReportsEarliest(ViolatedChecks(RecipientCount(d) > RECIPIENT_LIMIT, src,
                                               DestinationAddresses(d), TRUE, t))
        /\ \A src \in Sources, t \in TemplateArgs, d \in BulkDestinations :
             (ses_last'.op = "send_bulk_templated_email"
              /\ send_bulk_templated_email(src, t, <<"{}">>, d))
             => ReportsEarliest(ViolatedChecks(
                    Len(d) > RECIPIENT_LIMIT \/ TotalRecipients(d) > RECIPIENT_LIMIT,
                    src, BulkAddresses(d), TRUE, t))
        /\ \A src \in RawSources, d \in RawDestinations, m \in RawMessages :
             (ses_last'.op = "send_raw_email" /\ send_raw_email(src, d, m))
             => LET all == d \o HeaderRecipients(m)
                IN  ReportsEarliest(ViolatedChecks(Len(all) > RECIPIENT_LIMIT,
                                                   RawSender(src, m),
                                                   {all[i] : i \in DOMAIN all},
                                                   FALSE, <<>>)) ]_vars

\* the step rejects the message: MessageRejected, one more rejected message,
\* nothing else changes
RejectsMessage ==
    /\ ses_last'.err.exc = "MessageRejectedError"
    /\ rejected_messages_count' = rejected_messages_count + 1
    /\ UNCHANGED <<addresses, email_addresses, domains, templates, sns_topics,
                   sent_messages, sent_message_count, sns_published>>

\* C6: a send within the recipient limit whose source is not verified fails
\* with MessageRejected, adds exactly 1 to rejected_messages_count and changes
\* nothing else, in each of the four send operations.
C6_UnverifiedSourceRejected ==
    [][ /\ \A src \in Sources, d \in Destinations :
             (/\ ses_last'.op = "send_email"
              /\ RecipientCount(d) <= RECIPIENT_LIMIT
              /\ ~_is_verified_address(src)
              /\ send_email(src, "subject", "body", d)) => RejectsMessage
        /\ \A src \in Sources, t \in TemplateArgs, d \in Destinations :
             (/\ ses_last'.op = "send_templated_email"
              /\ RecipientCount(d) <= RECIPIENT_LIMIT
              /\ ~_is_verified_address(src)
              /\ send_templated_email(src, t, <<"{}">>, d)) => RejectsMessage
        /\ \A src \in Sources, t \in TemplateArgs, d \in BulkDestinations :
             (/\ ses_last'.op = "send_bulk_templated_email"
              /\ Len(d) <= RECIPIENT_LIMIT
              /\ TotalRecipients(d) <= RECIPIENT_LIMIT
              /\ ~_is_verified_address(src)
              /\ send_bulk_templated_email(src, t, <<"{}">>, d)) => RejectsMessage
        /\ \A src \in RawSources, d \in RawDestinations, m \in RawMessages :
             (/\ ses_last'.op = "send_raw_email"
              /\ Len(d \o HeaderRecipients(m)) <= RECIPIENT_LIMIT
              /\ RawSender(src, m) # None
              /\ ~_is_verified_address(RawSender(src, m))
              /\ send_raw_email(src, d, m)) => RejectsMessage ]_vars

\* the step fails on the recipient count and logs and counts nothing
FailsOnCount ==
    /\ ses_last'.err = TooManyRecipients
    /\ UNCHANGED <<sent_messages, sent_message_count, rejected_messages_count>>

\* the recipients in total across the destination lists of a request
ListedRecipients(d) ==
    Len(GetList(d, "ToAddresses")) + Len(GetList(d, "CcAddresses"))
    + Len(GetList(d, "BccAddresses"))

\* the destinations with more than 50 recipients, and those with exactly 50
OverLimit == {d \in Destinations : ListedRecipients(d) > 50}
AtLimit == {d \in Destinations : ListedRecipients(d) = 50}

\* C7: send_email and send_templated_email with more than 50 recipients over
\* all destination lists fail with 'Too many recipients' and leave
\* sent_messages, sent_message_count and rejected_messages_count as they were;
\* with exactly 50 recipients the recipient-count check passes.
C7_RecipientLimit ==
    [][ /\ ses_last'.op = "send_email"
           => /\ \A src \in Sources, d \in OverLimit :
                    FailsOnCount \/ ~send_email(src, "subject", "body", d)
              /\ \A src \in Sources, d \in AtLimit :
                    \/ ses_last'.err # TooManyRecipients
                    \/ ~send_email(src, "subject", "body", d)
        /\ ses_last'.op = "send_templated_email"
           => /\ \A src \in Sources, t \in TemplateArgs, d \in OverLimit :
                    FailsOnCount \/ ~send_templated_email(src, t, <<"{}">>, d)
              /\ \A src \in Sources, t \in TemplateArgs, d \in AtLimit :
                    \/ ses_last'.err # TooManyRecipients
                    \/ ~send_templated_email(src, t, <<"{}">>, d) ]_vars

\* a send of exactly 50 recipients was logged, then one of 51 was refused
C7_Witness ==
    /\ ses_last = SESCall("send_templated_email", TooManyRecipients)
    /\ Len(sent_messages) = 1
    /\ sent_message_count = 50

\* the recipients of a logged message, counted as the operation op counts them
LoggedRecipients(op, message) ==
    IF op = "send_raw_email" THEN Len(message.destinations)
    ELSE IF op = "send_bulk_templated_email" THEN TotalRecipients(message.destinations)
         ELSE RecipientCount(message.destinations)

\* C8: the send log only grows: a successful send appends exactly one message
\* at the end of sent_messages and adds its recipient count to
\* sent_message_count; a failed send appends nothing and leaves
\* sent_message_count; no operation removes or reorders logged messages or
\* decreases sent_message_count or rejected_messages_count.
C8_SendLogGrows ==
    [][ /\ Len(sent_messages') >= Len(sent_messages)
        /\ SubSeq(sent_messages', 1, Len(sent_messages)) = sent_messages
        /\ sent_message_count' >= sent_message_count
        /\ rejected_messages_count' >= rejected_messages_count
        /\ (ses_last'.op \in SendOps /\ ses_last'.err = NoError)
           => /\ Len(sent_messages') = Len(sent_messages) + 1
              /\ sent_message_count' = sent_message_count
                     + LoggedRecipients(ses_last'.op, sent_messages'[Len(sent_messages')])
        /\ (ses_last'.op \in SendOps /\ ses_last'.err # NoError)
           => UNCHANGED <<sent_messages, sent_message_count>>
        /\ ses_last'.op \notin SendOps
           => UNCHANGED <<sent_messages, sent_message_count, rejected_messages_count>>
      ]_vars

\* two different messages were logged one after the other, 51 recipients in all
C8_Witness ==
    /\ ses_last.op \in SendOps
    /\ ses_last.err = NoError
    /\ Len(sent_messages) = 2
    /\ sent_messages[1].kind # sent_messages[2].kind
    /\ sent_message_count = 51

----------------------------------------------------------------------------
(* Paginated listing: properties.                                          *)

\* the names of the unpaginated listing
AllNames ==
    [i \in DOMAIN _list_all_configuration_sets |->
        [Name |-> _list_all_configuration_sets[i].configuration_set_name]]

\* how often x occurs in the sequence q
Occurrences(q, x) == Cardinality({i \in DOMAIN q : q[i] = x})

\* C9: while the store does not change, the pages of repeated list calls, from
\* the call without a token to the response without one, hold every item of
\* the unpaginated listing exactly once and nothing else, for every page size
\* of at least 1; and the calls end: a store of n items takes at most n calls
\* (one call when it is empty).
C9_PaginationRoundTrip ==
    /\ pg_phase = "done"
       => /\ Len(pg_items) = Len(AllNames)
          /\ \A i \in DOMAIN AllNames : Occurrences(pg_items, AllNames[i]) = 1
    /\ pg_calls <= IF Len(AllNames) = 0 THEN 1 ELSE Len(AllNames)

\* three sets listed in three pages of one item
C9_Witness ==
    /\ pg_phase = "done"
    /\ pg_calls = 3
    /\ Len(pg_items) = 3
    /\ "MaxItems" \in DOMAIN pg_params

----------------------------------------------------------------------------
(* Network ACLs: properties.                                               *)

\* entries holds exactly the four default rules
IsDefaultEntries(entries) ==
    /\ Len(entries) = 4
    /\ \A egress \in {"true", "false"} :
       \A rule \in {<<"100", "allow">>, <<"32767", "deny">>} :
          \E i \in DOMAIN entries :
              /\ entries[i].egress = egress
              /\ entries[i].rule_number = rule[1]
              /\ entries[i].rule_action = rule[2]
              /\ entries[i].protocol = "-1"
              /\ entries[i].cidr_block = "0.0.0.0/0"

\* C10: create_network_acl with default=True yields an ACL with exactly 4
\* entries, for egress true and for egress false an allow rule 100 and a deny
\* rule 32767, each with protocol -1 and CIDR 0.0.0.0/0; with default=False it
\* yields an ACL without entries.
C10_DefaultEntries ==
    [][ \A v \in VpcIds, default \in BOOLEAN :
          (/\ acl_last'.op = "create_network_acl"
           /\ acl_last'.err = NoError
           /\ create_network_acl(v, default))
          => LET entries == network_acls'[acl_last'.id].network_acl_entries
             IN  IF default THEN IsDefaultEntries(entries) ELSE entries = <<>> ]_vars

\* a default ACL was just created next to an ACL that is not a default one
C10_Witness ==
    /\ acl_last.op = "create_network_acl"
    /\ acl_last.err = NoError
    /\ network_acls[acl_last.id].default = "true"
    /\ Len(network_acls[acl_last.id].network_acl_entries) = 4
    /\ \E id \in DOMAIN network_acls :
          /\ network_acls[id].default = "false"
          /\ network_acls[id].network_acl_entries = <<>>

\* the store d without the key k, every other key as it was
Without(d, k) == [x \in DOMAIN d \ {k} |-> d[x]]

\* C11: delete_network_acl of an id that is not stored raises
\* InvalidNetworkAclIdError and leaves the store as it was; of a stored id it
\* removes that ACL and no other; the get_network_acl or delete_network_acl of
\* the same id that follows a successful delete raises
\* InvalidNetworkAclIdError.
C11_DeleteNetworkAcl ==
    [][ /\ (acl_last'.op = "delete_network_acl" /\ acl_last'.id \notin DOMAIN network_acls)
           => /\ acl_last'.err = InvalidNetworkAclId(acl_last'.id)
              /\ network_acls' = network_acls
        /\ (acl_last'.op = "delete_network_acl" /\ acl_last'.id \in DOMAIN network_acls)
           => /\ acl_last'.err = NoError
              /\ network_acls' = Without(network_acls, acl_last'.id)
        /\ (/\ acl_last.op = "delete_network_acl"
            /\ acl_last.err = NoError
            /\ acl_last'.op \in {"get_network_acl", "delete_network_acl"}
            /\ acl_last'.id = acl_last.id)
           => /\ acl_last'.err = InvalidNetworkAclId(acl_last.id)
              /\ network_acls' = network_acls ]_vars

\* a stored ACL was just deleted and the other ACL is still stored
C11_Witness ==
    /\ acl_last.op = "delete_network_acl"
    /\ acl_last.err = NoError
    /\ DOMAIN network_acls = AclIds \ {acl_last.id}

----------------------------------------------------------------------------
(* CodePipeline: more properties.                                          *)

\* C12: delete_pipeline is idempotent: for a name that is not stored it raises
\* nothing and changes nothing; for a stored name it removes that pipeline and
\* leaves every other pipeline as it was; after it the name is not stored, so
\* a second call changes nothing more.
C12_DeleteIdempotent ==
    [][ cp_last'.op = "delete_pipeline"
        => /\ cp_last'.err = NoError
           /\ cp_last'.name \notin DOMAIN pipelines => pipelines' = pipelines
           /\ pipelines' = Without(pipelines, cp_last'.name)
           /\ cp_last'.name \notin DOMAIN pipelines'
           /\ clock' = clock ]_vars

\* p1 was deleted (or deleted again) while p2 stays with its tags
C12_Witness ==
    /\ cp_last = CPCall("delete_pipeline", "p1", NoError)
    /\ DOMAIN pipelines = {"p2"}
    /\ DOMAIN pipelines["p2"].tags # {}

\* field of the stored action b reads back what the payload's action a gave,
\* or default when a left the field out
FieldReadsBack(a, b, field, default) ==
    /\ field \in DOMAIN b
    /\ b[field] = IF field \in DOMAIN a THEN a[field] ELSE default

\* the stored definition has the stages and actions of the payload, each action
\* with its four optional fields supplied or filled
ReadsBack(payload, stored) ==
    /\ DOMAIN stored.stages = DOMAIN payload.stages
    /\ \A i \in DOMAIN payload.stages :
          /\ DOMAIN stored.stages[i].actions = DOMAIN payload.stages[i].actions
          /\ \A j \in DOMAIN payload.stages[i].actions :
                LET a == payload.stages[i].actions[j]
                    b == stored.stages[i].actions[j]
                IN  /\ b.name = a.name
                    /\ FieldReadsBack(a, b, "runOrder", 1)
                    /\ FieldReadsBack(a, b, "configuration", <<>>)
                    /\ FieldReadsBack(a, b, "outputArtifacts", <<>>)
                    /\ FieldReadsBack(a, b, "inputArtifacts", <<>>)

\* C13: after every successful create_pipeline or update_pipeline each action
\* of each stage of the stored pipeline has runOrder, configuration,
\* outputArtifacts and inputArtifacts: the payload's value where the payload
\* gives one, else 1, an empty mapping, an empty list and an empty list; the
\* rule is the same for create and for update.
C13_DefaultsFilled ==
    [][ /\ (cp_last'.op = "create_pipeline" /\ cp_last'.err = NoError)
           => \A p \in PayloadsOf(cp_last'.name) :
                \/ ReadsBack(p, pipelines'[p.name].pipeline)
                \/ ~(\E t \in TagListsOf(p.name) : create_pipeline(p, t))
        /\ (cp_last'.op = "update_pipeline" /\ cp_last'.err = NoError)
           => \A p \in PayloadsOf(cp_last'.name) :
                \/ ReadsBack(p, pipelines'[p.name].pipeline)
                \/ ~update_pipeline(p) ]_vars

\* p1 was updated with the payload of three stages: the action that gave
\* runOrder 3 and inputArtifacts keeps them and has the two other fields filled
C13_Witness ==
    /\ cp_last = CPCall("update_pipeline", "p1", NoError)
    /\ Len(pipelines["p1"].pipeline.stages) = 3
    /\ LET b == pipelines["p1"].pipeline.stages[2].actions[1]
       IN  /\ b.runOrder = 3
           /\ b.inputArtifacts = <<"out">>
           /\ DOMAIN b.configuration = {}
           /\ b.outputArtifacts = <<>>
    /\ pipelines["p1"].pipeline.stages[1].actions[2].runOrder = 1

\* the role of the payload is missing or does not trust codepipeline.amazonaws.com
BadRole(payload) ==
    \/ payload.roleArn \notin DOMAIN iam_roles
    \/ \A i \in DOMAIN iam_roles[payload.roleArn] :
          iam_roles[payload.roleArn][i] # "codepipeline.amazonaws.com"

\* tags a new pipeline accepts: no reserved key, at most 50
AcceptableTags(tags) ==
    /\ Len(tags) <= 50
    /\ \A i \in DOMAIN tags : tags[i].key.prefix # "aws:"

\* what create_pipeline does with a payload of a new name
CreateOutcome(payload, tags) ==
    IF BadRole(payload)
    THEN /\ cp_last'.err.exc = "InvalidStructureException"
         /\ cp_last'.err.msg = "not authorized to perform AssumeRole"
         /\ pipelines' = pipelines
    ELSE IF Len(payload.stages) < 2
         THEN /\ cp_last'.err.exc = "InvalidStructureException"
              /\ cp_last'.err.msg = "minimum of 2 stages"
              /\ cp_last'.err.msg # "not authorized to perform AssumeRole"
              /\ pipelines' = pipelines
         ELSE AcceptableTags(tags)
              => /\ cp_last'.err = NoError
                 /\ payload.name \in DOMAIN pipelines'
                 /\ pipelines'[payload.name].pipeline.version = 1

LookupOps == {"get_pipeline", "update_pipeline", "list_tags_for_resource",
              "tag_resource", "untag_resource"}

NotFoundErrors == {"PipelineNotFoundException", "ResourceNotFoundException"}

\* C15: get_pipeline, update_pipeline, list_tags_for_resource, tag_resource and
\* untag_resource for a name that is not stored raise a not-found error and
\* leave the store as it was; update_pipeline never adds a pipeline.
C15_NotFound ==
    [][ /\ (cp_last'.op \in LookupOps /\ cp_last'.name \notin DOMAIN pipelines)
           => /\ cp_last'.err.exc \in NotFoundErrors
              /\ pipelines' = pipelines
              /\ clock' = clock
        /\ cp_last'.op = "update_pipeline"
           => DOMAIN pipelines' = DOMAIN pipelines ]_vars

\* an update of a name that is not stored was refused while the other
\* pipeline is stored
C15_Witness ==
    /\ cp_last.op = "update_pipeline"
    /\ cp_last.err.exc = "ResourceNotFoundException"
    /\ cp_last.name \notin DOMAIN pipelines
    /\ pipelines # EmptyDict

\* the typed service errors the network ACL operations raise
AclServiceErrors == {"InvalidNetworkAclIdError", "NetworkAclEntryAlreadyExistsError",
                     "InvalidVPCIdError"}

\* C16: an operation called for a resource that is not stored either succeeds
\* or raises a typed service error; here for the network ACL operations, whose
\* last call is never left with an untyped runtime failure.
C16_TypedFailures ==
    acl_last.err # NoError => acl_last.err.exc \in AclServiceErrors

\* C17: list_pipelines returns one entry per stored pipeline, with its current
\* version, in ascending order of the names whatever the order of creation;
\* list_tags_for_resource returns exactly the current tags of the pipeline in
\* ascending order of the keys.
C17_ListsSorted ==
    /\ cp_last.op = "list_pipelines"
       => LET r == cp_last.result
          IN  /\ Len(r) = Cardinality(DOMAIN pipelines)
              /\ \A n \in DOMAIN pipelines :
                     \E i \in DOMAIN r : /\ r[i].name = n
                                         /\ r[i].version = pipelines[n].pipeline.version
              /\ \A i \in 1..(Len(r) - 1) : NameLess(r[i].name, r[i + 1].name)
    /\ (cp_last.op = "list_tags_for_resource" /\ cp_last.err = NoError)
       => LET r    == cp_last.result
              tags == pipelines[cp_last.name].tags
          IN  /\ Len(r) = Cardinality(DOMAIN tags)
              /\ \A i \in DOMAIN r : r[i].key \in DOMAIN tags /\ r[i].value = tags[r[i].key]
              /\ \A i \in 1..(Len(r) - 1) : KeyLess(r[i].key, r[i + 1].key)

\* list_pipelines returned both pipelines, p1 first, when p2 was created before
\* p1 and p1 was updated since
C17_Witness ==
    /\ cp_last.op = "list_pipelines"
    /\ Len(cp_last.result) = 2
    /\ cp_last.result[1].name = "p1"
    /\ cp_last.result[1].version = 2
    /\ pipelines["p2"].created < pipelines["p1"].created

\* the tag lists of a call for name that hold a key starting with "aws:"
ReservedTagLists(name) ==
    {t \in TagListsOf(name) : \E i \in DOMAIN t : t[i].key.prefix = "aws:"}

\* C18: tag_resource of a stored pipeline with a list that holds a key
\* starting with "aws:" fails with InvalidTags and applies none of the tags of
\* the call, also when the list would take the pipeline over the ceiling.
C18_ReservedKeys ==
    [][ (cp_last'.op = "tag_resource" /\ cp_last'.name \in DOMAIN pipelines)
        => \A t \in ReservedTagLists(cp_last'.name) :
               \/ /\ cp_last'.err.exc = "InvalidTagsException"
                  /\ pipelines' = pipelines
               \/ ~tag_resource(ArnOf(cp_last'.name), t) ]_vars

\* a pipeline that holds 49 tags refused a list of a user key and a system key
C18_Witness ==
    /\ cp_last.op = "tag_resource"
    /\ cp_last.err.exc = "InvalidTagsException"
    /\ cp_last.name \in DOMAIN pipelines
    /\ Cardinality(DOMAIN pipelines[cp_last.name].tags) = TagLimit - 1
    /\ UserKey(50) \notin DOMAIN pipelines[cp_last.name].tags

\* the associations of every ACL of the store acls
AssociationsOf(acls) == [a \in DOMAIN acls |-> acls[a].associations]

\* C19: replace_network_acl_association with an association id that exists
\* and a target ACL id that is not stored raises InvalidNetworkAclIdError and
\* leaves the associations of every ACL as they were.
C19_FailedReplaceKeepsAssociation ==
    [][ (/\ acl_last'.op = "replace_network_acl_association"
         /\ acl_last'.id \notin DOMAIN network_acls)
        => \A a \in UsedAssocIds(network_acls) :
               \/ /\ acl_last'.err = InvalidNetworkAclId(acl_last'.id)
                  /\ AssociationsOf(network_acls') = AssociationsOf(network_acls)
               \/ ~replace_network_acl_association(a, acl_last'.id) ]_vars

\* C20: create_configuration_set and create_configuration_set_v2 with a name
\* that is stored fail with ConfigurationSetAlreadyExists and leave the store
\* as it was; describe_configuration_set returns the stored set of the name
\* and fails, with ConfigurationSetDoesNotExist, exactly when no set of the
\* name is stored.
C20_ConfigurationSetLookup ==
    [][ /\ (/\ cs_last'.op \in {"create_configuration_set", "create_configuration_set_v2"}
            /\ \E i \in DOMAIN config_sets :
                   config_sets[i].configuration_set_name = cs_last'.name)
           => /\ cs_last'.err.exc = "ConfigurationSetAlreadyExists"
              /\ config_sets' = config_sets
        /\ cs_last'.op = "describe_configuration_set"
           => LET stored == {i \in DOMAIN config_sets :
                               config_sets[i].configuration_set_name = cs_last'.name}
              IN  /\ config_sets' = config_sets
                  /\ stored = {} <=> cs_last'.err # NoError
                  /\ stored = {} => cs_last'.err.exc = "ConfigurationSetDoesNotExist"
                  /\ stored # {} => \A i \in stored : cs_last'.result = config_sets[i] ]_vars

\* create_configuration_set_v2 of a name that create_configuration_set stored
\* was refused, and the set still has the fields create_configuration_set gave
C20_Witness ==
    /\ cs_last.op = "create_configuration_set_v2"
    /\ cs_last.err.exc = "ConfigurationSetAlreadyExists"
    /\ \E i \in DOMAIN config_sets :
           /\ config_sets[i].configuration_set_name = cs_last.name
           /\ config_sets[i].tags = <<>>
    /\ Len(config_sets) > 1

\* the feedback type the claim gives a destination dict: that of the first
\* address, in To, Cc, Bcc order, that holds one of the three reserved words
RECURSIVE FeedbackTypeOf(_)
FeedbackTypeOf(addrs) ==
    IF addrs = <<>> THEN "None"
    ELSE IF \E i \in DOMAIN addrs[1] : addrs[1][i] = "success" THEN "Delivery"
    ELSE IF \E i \in DOMAIN addrs[1] : addrs[1][i] = "complaint" THEN "Complaint"
    ELSE IF \E i \in DOMAIN addrs[1] : addrs[1][i] = "bounce" THEN "Bounce"
    ELSE FeedbackTypeOf(Tail(addrs))

\* the addresses of a destination dict in To, Cc, Bcc order
InOrder(d) ==
    (IF "ToAddresses" \in DOMAIN d THEN d.ToAddresses ELSE <<>>)
    \o (IF "CcAddresses" \in DOMAIN d THEN d.CcAddresses ELSE <<>>)
    \o (IF "BccAddresses" \in DOMAIN d THEN d.BccAddresses ELSE <<>>)

\* the identities a mail from source is sent from: the address and its domain
IdentitiesOf(source) ==
    LET address == parseaddr(source)
    IN  {address, AfterFirstAt(address)}

\* the topics set for the identities of source and the feedback type
TopicsFor(source, type) ==
    {sns_topics[i][type] : i \in {x \in IdentitiesOf(source) :
                                     x \in DOMAIN sns_topics /\ type \in DOMAIN sns_topics[x]}}

\* C21: a successful send_email publishes exactly one notification, to the
\* topic set for the identity the mail is sent from and the feedback type of
\* the first matching destination address, when there is such an address and
\* such a topic, and nothing otherwise; a send_email that fails publishes
\* nothing.
C21_FeedbackNotification ==
    [][ ses_last'.op = "send_email"
        => IF ses_last'.err # NoError
           THEN sns_published' = sns_published
           ELSE LET msg    == sent_messages'[Len(sent_messages')]
                    type   == FeedbackTypeOf(InOrder(msg.destinations))
                    topics == IF type = "None" THEN {} ELSE TopicsFor(msg.source, type)
                IN  IF topics = {}
                    THEN sns_published' = sns_published
                    ELSE \E t \in topics :
                             sns_published' = Append(sns_published,
                                                     [arn |-> t, type |-> type]) ]_vars

\* the resource has a tag for the filter: the key of the filter with one of
\* its Values, any value when the filter gives none
HasTagFor(f, tags) ==
    \E k \in DOMAIN tags :
        /\ k = f.Key
        /\ ("Values" \in DOMAIN f /\ f.Values # <<>>)
             => tags[k] \in {f.Values[i] : i \in DOMAIN f.Values}

\* the service or service:type of the resource is one of the type filters
OfListedType(types, r) ==
    \E i \in DOMAIN types :
        \/ (r.service = "ec2" /\ types[i] \in {"ec2", "ec2:instance"})
        \/ (r.service = "elasticloadbalancing"
               /\ types[i] \in {"elasticloadbalancing", "elasticloadbalancing:loadbalancer"})

\* C22: get_resources returns a resource exactly when it has at least one
\* tag, has a tag for every TagFilter of the request and, when the request
\* gives ResourceTypeFilters, is of one of the listed types.
C22_GetResources ==
    rg_last.op = "get_resources"
    => rg_last.result =
          { id \in DOMAIN tagged :
              /\ DOMAIN tagged[id].tags # {}
              /\ \A i \in DOMAIN rg_last.request.TagFilters :
                     HasTagFor(rg_last.request.TagFilters[i], tagged[id].tags)
              /\ rg_last.request.ResourceTypeFilters # <<>>
                     => OfListedType(rg_last.request.ResourceTypeFilters, tagged[id]) }

ReputationOf(sets) ==
    [n \in {unique_attribute(sets[i]) : i \in DOMAIN sets} |->
        (sets[CHOOSE i \in DOMAIN sets : unique_attribute(sets[i]) = n]).reputation_options]

\* C24: update_configuration_set_reputation_metrics_enabled(name, enabled)
\* leaves the reputation options of every set but the named one as they were,
\* in its own backend and in the other one, and a set that
\* create_configuration_set makes, before or after such a call, starts with
\* the empty reputation options
C24_ReputationFrame ==
    [][/\ cs_last'.op = "update_configuration_set_reputation_metrics_enabled"
          => /\ \A n \in DOMAIN ReputationOf(config_sets) :
                    n # cs_last'.name
                    => ReputationOf(config_sets')[n] = ReputationOf(config_sets)[n]
             /\ ReputationOf(other_config_sets') = ReputationOf(other_config_sets)
       /\ cs_last'.op = "create_configuration_set" /\ cs_last'.err = NoError
          => ReputationOf(config_sets')[cs_last'.name] = EmptyDict
       /\ cs_last'.op = "other_create_configuration_set" /\ cs_last'.err = NoError
          => ReputationOf(other_config_sets')[cs_last'.name] = EmptyDict]_vars

\* some rule of the set has the name
HasRuleNamed(rule_set, name) == \E i \in DOMAIN rule_set : rule_set[i].name = name

\* C25: no receipt rule set holds two rules of one name, and
\* create_receipt_rule with the name of a rule of the set fails with
\* AlreadyExists and leaves the set as it was, whatever the other fields of
\* the rule are
C25_RuleNamesUnique ==
    [][/\ \A s \in DOMAIN receipt_rule_set' :
              \A i, j \in DOMAIN receipt_rule_set'[s] :
                  i # j => receipt_rule_set'[s][i].name # receipt_rule_set'[s][j].name
       /\ ( /\ rr_last'.op = "create_receipt_rule"
            /\ rr_last'.rule_set_name \in DOMAIN receipt_rule_set
            /\ HasRuleNamed(receipt_rule_set[rr_last'.rule_set_name], rr_last'.rule.name) )
          => /\ rr_last'.err.exc = "AlreadyExists"
             /\ receipt_rule_set' = receipt_rule_set]_vars

\* the names of the event destinations attached to the stored sets
AttachedNames(sets, destinations) ==
    { destinations[n].Name :
        n \in { m \in DOMAIN destinations :
                  \E i \in DOMAIN sets : unique_attribute(sets[i]) = m } }

\* C26: after every call the names recorded in event_destinations are the
\* names of the destinations attached to the stored sets, and only stored
\* sets have a destination; so a destination name that is attached to no
\* stored set is accepted for a stored set, and a set that
\* create_configuration_set has made is described without an event destination
C26_EventDestinations ==
    [][/\ DOMAIN event_destinations'
          = AttachedNames(config_sets', config_set_event_destination')
       /\ \A n \in DOMAIN config_set_event_destination' :
              \E i \in DOMAIN config_sets' : unique_attribute(config_sets'[i]) = n
       /\ ( /\ cs_last'.op = "create_configuration_set_event_destination"
            /\ HasConfigSet(cs_last'.name)
            /\ cs_last'.destination
                   \notin AttachedNames(config_sets, config_set_event_destination) )
          => cs_last'.err = NoError
       /\ (cs_last'.op = "create_configuration_set" /\ cs_last'.err = NoError)
          => DescribedEventDestinations(config_set_event_destination', cs_last'.name)
             = <<NoDestination>>]_vars

\* the entry replace_network_acl_entry is called with
ReplaceInputs ==
    { [rule_number |-> "200", protocol |-> "17", rule_action |-> "deny",
       egress |-> "false", cidr_block |-> "10.0.0.0/8"] }

\* the places of the entries of this egress and rule number
EntriesFor(entries, egress, rule_number) ==
    { i \in DOMAIN entries :
        entries[i].egress = egress /\ entries[i].rule_number = rule_number }

\* C27: no network ACL has two entries of one egress and rule number;
\* create_network_acl_entry for a pair the ACL has fails with
\* NetworkAclEntryAlreadyExistsError and leaves the entries as they were; a
\* replace_network_acl_entry that succeeds leaves the number of entries as it
\* was, with one entry for the pair, which has the new values
C27_EntriesUnique ==
    [][/\ \A a \in DOMAIN network_acls' :
              \A i, j \in DOMAIN network_acls'[a].network_acl_entries :
                  LET entries == network_acls'[a].network_acl_entries
                  IN  i # j => ~( /\ entries[i].egress = entries[j].egress
                                  /\ entries[i].rule_number = entries[j].rule_number )
       /\ \A id \in DOMAIN network_acls, e \in EntryInputs :
              \/ ~HasEntry(network_acls[id].network_acl_entries, e.egress, e.rule_number)
              \/ ~create_network_acl_entry(id, e.rule_number, e.protocol, e.rule_action,
                                           e.egress, e.cidr_block)
              \/ /\ acl_last'.err.exc = "NetworkAclEntryAlreadyExistsError"
                 /\ network_acls' = network_acls
       /\ \A id \in DOMAIN network_acls, e \in ReplaceInputs :
              \/ acl_last'.op # "replace_network_acl_entry"
              \/ acl_last'.err # NoError
              \/ ~replace_network_acl_entry(id, e.rule_number, e.protocol, e.rule_action,
                                            e.egress, e.cidr_block)
              \/ LET before == network_acls[id].network_acl_entries
                     after == network_acls'[id].network_acl_entries
                     places == EntriesFor(after, e.egress, e.rule_number)
                 IN  /\ Len(after) = Len(before)
                     /\ Cardinality(places) = 1
                     /\ \A i \in places :
                            after[i] = NetworkAclEntry(id, e.rule_number, e.protocol,
                                                       e.rule_action, e.egress, e.cidr_block)
      ]_vars

\* an ACL holds the entry a replace_network_acl_entry has put in the place of
\* the entry of rule 200, next to another entry
C27_Witness ==
    /\ acl_last.op = "replace_network_acl_entry"
    /\ acl_last.err = NoError
    /\ \E i \in DOMAIN network_acls[acl_last.id].network_acl_entries :
           /\ network_acls[acl_last.id].network_acl_entries[i].rule_number = "200"
           /\ network_acls[acl_last.id].network_acl_entries[i].protocol = "17"
    /\ Len(network_acls[acl_last.id].network_acl_entries) > 1

\* the typed errors of the EC2 service that name a resource id
Ec2IdErrors == {"InvalidNetworkAclIdError", "InvalidRouteTableIdError"}

\* C28: describe_network_acls without filters, with a list of ids that is not
\* empty: when every id of the list is stored it returns the ACLs of those
\* ids, each once, and raises nothing, also when the list names an id twice;
\* when some id is not stored it raises a typed error that names an id of the
\* list that is not stored
C28_DescribeByIds ==
    (acl_last.op = "describe_network_acls" /\ acl_last.ids # <<>>)
    => IF ElementsOf(acl_last.ids) \subseteq DOMAIN network_acls
       THEN /\ acl_last.err = NoError
            /\ ElementsOf(acl_last.result) = ElementsOf(acl_last.ids)
            /\ Len(acl_last.result) = Cardinality(ElementsOf(acl_last.ids))
       ELSE /\ acl_last.err.exc \in Ec2IdErrors
            /\ acl_last.err.msg \in ElementsOf(acl_last.ids) \ DOMAIN network_acls

\* C29: tag_resource on a stored pipeline with no key of the prefix 'aws:'
\* returns when the pipeline would hold at most 50 keys after the call, and
\* raises TooManyTags when the merged tags would have more than 50 keys; so
\* a call that only gives keys the pipeline has returns
C29_TagResourceCeiling ==
    [][ \A n \in Names : \A t \in TagListsOf(n) :
            (/\ cp_last'.op = "tag_resource"
             /\ n \in DOMAIN pipelines
             /\ ~HasSystemKey(t)
             /\ tag_resource(ArnOf(n), t))
            => cp_last'.err.exc =
                   (IF MergedCount(pipelines[n], t) > TagLimit
                    THEN "TooManyTagsException" ELSE "none")
      ]_vars

\* C30: when delete_identity has returned for an email address whose domain
\* is not a verified domain, whatever verify_email_identity and
\* verify_email_address calls came before, a send_email from that address
\* that follows is rejected as not verified
C30_DeletedIdentityNotVerified ==
    [][ \A a \in {PLAIN} :
            (/\ ses_last.op = "delete_identity"
             /\ ses_last.err = NoError
             /\ ses_last.identity = a
             /\ ~InList(AfterFirstAt(a), domains)
             /\ send_email(a, "subject", "body", [ToAddresses |-> <<RCPT>>]))
            => ses_last'.err = NotVerified
      ]_vars

====
